---- MODULE Spec2Model ----
(***************************************************************************)
(* Bond core (bond-core crate): the chain-state engine ChainState with its *)
(* unspent-output index, the block and transaction data model, consensus   *)
(* block validation, the spending conditions of programmable outputs and   *)
(* the script interpreter.                                                 *)
(*                                                                         *)
(* Conventions of the model                                                *)
(*  - Keccak-256 over the bincode serialization is collision free on the   *)
(*    values of the model: the digest of x is the one-element tuple <<x>>, *)
(*    and the all-zero digest (ZERO) is the empty tuple.                   *)
(*  - Amounts are counted in units of 10^9 Elo; u64 and u32 are kept at a  *)
(*    reduced width (U64_MAX, U32_MAX).                                    *)
(*  - A Result is a record [kind, reason, required, available, utxo_id];   *)
(*    kind "Ok" is Ok(()), every other kind is the BondError variant.      *)
(***************************************************************************)
EXTENDS Integers, Sequences, FiniteSets, TLC

VARIABLES
    blocks,      \* ChainState.blocks: Vec<Block>
    utxo_set,    \* ChainState.utxo_set: HashMap<UtxoId, TransactionOutput>
    height,      \* ChainState.height: u32
    total_work,  \* ChainState.total_work: u64
    result,      \* what the last add_block call returned
    trace,       \* the steps the last add_block call took, in order
    should_stop,       \* Miner.should_stop: Arc<AtomicBool>, shared with the stop handles
    hashes_attempted,  \* Miner.stats.hashes_attempted
    miner_pc,          \* where the thread running mine_block stands
    mine_header,            \* mine_block: the header template, later with the nonces tried
    mine_nonce,             \* mine_block: the local nonce
    mine_result,       \* what the last mine_block call returned
    requested,         \* a stop was requested since mine_block was called
    vm_script,          \* execute: the script
    vm_max_ops,         \* ScriptInterpreter.max_ops
    vm_max_stack_size,  \* ScriptInterpreter.max_stack_size
    vm_pc,              \* execute: pc
    vm_op_count,        \* execute: op_count
    vm_stack,           \* execute: stack.items
    vm_state,           \* "idle", "running" (inside execute) or "done" (execute returned)
    vm_result,          \* what the last execute call returned
    dc_history,         \* calculate_next_difficulty: the argument blocks
    dc_current_target,  \* calculate_next_difficulty: the argument current_target
    dc_next_target,     \* what the call returned
    dc_called,          \* calculate_next_difficulty was called
    fn_name,            \* the function called on its own ("none" before the call)
    fn_args,            \* its arguments
    fn_ret              \* what it returned

chainVars == <<blocks, utxo_set, height, total_work, result, trace>>

minerVars ==
    <<should_stop, hashes_attempted, miner_pc, mine_header, mine_nonce, mine_result, requested>>

vmVars ==
    <<vm_script, vm_max_ops, vm_max_stack_size, vm_pc, vm_op_count, vm_stack, vm_state, vm_result>>

retargetVars == <<dc_history, dc_current_target, dc_next_target, dc_called>>

callVars == <<fn_name, fn_args, fn_ret>>

vars == <<chainVars, minerVars, vmVars, retargetVars, callVars>>

notChainVars == <<minerVars, vmVars, retargetVars, callVars>>

notMinerVars == <<chainVars, vmVars, retargetVars, callVars>>

notVmVars == <<chainVars, minerVars, retargetVars, callVars>>

notRetargetVars == <<chainVars, minerVars, vmVars, callVars>>

notCallVars == <<chainVars, minerVars, vmVars, retargetVars>>

---------------------------------------------------------------------------
(* Bounds of the model *)

\* longest chain explored (add_block is not called on a longer chain)
MaxBlocks == 3

\* largest number of transactions in a candidate block
MaxTxs == 2

(* Widths *)

\* u64::MAX at the model's width
U64_MAX == 15

\* 0xFFFFFFFF (u32::MAX) at the model's width, narrower than u64
U32_MAX == 7

---------------------------------------------------------------------------
(* Hashes, references, scripts *)

Keccak256(x) == <<x>>

ZERO == <<>>

\* DifficultyTarget::MAX (all 0xFF) and DifficultyTarget::MIN (all 0x00)
TargetMAX == 7

TargetMIN == 0

UtxoId(tx_hash, output_index) == [tx_hash |-> tx_hash, output_index |-> output_index]

COINBASE == UtxoId(ZERO, U32_MAX)

TransactionInput(previous_output, script_sig, sequence) ==
    [previous_output |-> previous_output, script_sig |-> script_sig, sequence |-> sequence]

TransactionOutput(value, script_pubkey) ==
    [value |-> value, script_pubkey |-> script_pubkey]

Transaction(version, inputs, outputs, locktime, timestamp) ==
    [version |-> version, inputs |-> inputs, outputs |-> outputs,
     locktime |-> locktime, timestamp |-> timestamp]

\* Transaction::coinbase, with the timestamp Utc::now() as a parameter
coinbase(reward, extra_data, now) ==
    Transaction(1, <<TransactionInput(COINBASE, extra_data, U32_MAX)>>,
                <<TransactionOutput(reward, <<>>)>>, 0, now)

TransactionHash(tx) == Keccak256(tx)

is_coinbase(tx) ==
    Len(tx.inputs) = 1 /\ tx.inputs[1].previous_output = COINBASE

---------------------------------------------------------------------------
(* Results *)

Ok == [kind |-> "Ok", reason |-> "", required |-> 0, available |-> 0, utxo_id |-> COINBASE]

Err(kind, reason) ==
    [kind |-> kind, reason |-> reason, required |-> 0, available |-> 0, utxo_id |-> COINBASE]

InsufficientFunds(required, available) ==
    [kind |-> "InsufficientFunds", reason |-> "", required |-> required,
     available |-> available, utxo_id |-> COINBASE]

DoubleSpending(utxo_id) ==
    [kind |-> "DoubleSpending", reason |-> "", required |-> 0, available |-> 0,
     utxo_id |-> utxo_id]

IsOk(r) == r.kind = "Ok"

\* an f64 as the fraction num / den, without rounding; den = 0 is f64::MAX or
\* infinity
Fraction(num, den) == [num |-> num, den |-> den]

---------------------------------------------------------------------------
(* Transaction: sums and structural validation *)

RECURSIVE SumOutputs_Wrapping(_, _, _)
\* a variant of the loop that adds with wrapping_add
SumOutputs_Wrapping(outputs, i, acc) ==
    IF i > Len(outputs) THEN acc
    ELSE SumOutputs_Wrapping(outputs, i + 1, (acc + outputs[i].value) % (U64_MAX + 1))

RECURSIVE SumOutputs(_, _, _)
\* the loop of total_output_value from output i on, total so far in acc:
\* a number, or -1 for ArithmeticOverflow (checked_add)
SumOutputs(outputs, i, acc) ==
    IF i > Len(outputs) THEN acc
    ELSE IF acc + outputs[i].value > U64_MAX THEN -1
    ELSE SumOutputs(outputs, i + 1, acc + outputs[i].value)

total_output_value(tx) == SumOutputs(tx.outputs, 1, 0)

RECURSIVE SumInputs(_, _, _, _)
\* the loop of total_input_value: -1 for ArithmeticOverflow, -2 for a missing reference
SumInputs(inputs, utxos, i, acc) ==
    IF i > Len(inputs) THEN acc
    ELSE IF inputs[i].previous_output \notin DOMAIN utxos THEN -2
    ELSE IF acc + utxos[inputs[i].previous_output].value > U64_MAX THEN -1
    ELSE SumInputs(inputs, utxos, i + 1, acc + utxos[inputs[i].previous_output].value)

total_input_value(tx, utxos) ==
    IF is_coinbase(tx) THEN 0 ELSE SumInputs(tx.inputs, utxos, 1, 0)

\* a variant of validate that accepts outputs of value zero
Transaction_validate_NoValueCheck(tx) ==
    IF tx.version = 0
    THEN Err("InvalidTransaction", "Transaction version cannot be zero")
    ELSE IF ~is_coinbase(tx) /\ Len(tx.inputs) = 0
    THEN Err("InvalidTransaction", "Non-coinbase transaction must have at least one input")
    ELSE IF Len(tx.outputs) = 0
    THEN Err("InvalidTransaction", "Transaction must have at least one output")
    ELSE Ok

Transaction_validate(tx) ==
    IF tx.version = 0
    THEN Err("InvalidTransaction", "Transaction version cannot be zero")
    ELSE IF ~is_coinbase(tx) /\ Len(tx.inputs) = 0
    THEN Err("InvalidTransaction", "Non-coinbase transaction must have at least one input")
    ELSE IF Len(tx.outputs) = 0
    THEN Err("InvalidTransaction", "Transaction must have at least one output")
    ELSE IF is_coinbase(tx) /\ Len(tx.inputs) # 1
    THEN Err("InvalidTransaction", "Coinbase transaction must have exactly one input")
    ELSE IF \E i \in 1..Len(tx.outputs) : tx.outputs[i].value = 0
    THEN Err("InvalidTransaction", "Transaction output cannot have zero value")
    ELSE Ok

\* the copy signature_hash makes: every script_sig replaced by the empty script
ClearScriptSigs(tx) ==
    [tx EXCEPT !.inputs = [i \in 1..Len(tx.inputs) |->
                             [tx.inputs[i] EXCEPT !.script_sig = <<>>]]]

\* a variant of signature_hash that hashes the transaction as it is
signature_hash_KeepScriptSigs(tx, input) ==
    Keccak256(<<tx, input.previous_output>>)

\* Transaction::signature_hash: the digest of the serialized copy followed by
\* the bytes of the input's reference
signature_hash(tx, input) ==
    Keccak256(<<ClearScriptSigs(tx), input.previous_output>>)

---------------------------------------------------------------------------
(* Blocks *)

BlockHeader(version, previous_hash, merkle_root, timestamp, difficulty_target, nonce) ==
    [version |-> version, previous_hash |-> previous_hash, merkle_root |-> merkle_root,
     timestamp |-> timestamp, difficulty_target |-> difficulty_target, nonce |-> nonce]

Block(header, transactions) == [header |-> header, transactions |-> transactions]

BlockHeader_hash(header) == Keccak256(header)

\* The digest read as a big-endian number, at the width of the targets: a fixed
\* mixing of the header's numeric fields stands for Keccak-256.
Magnitude(hash) ==
    IF hash = ZERO THEN 0
    ELSE (7 * hash[1].nonce + 3 * hash[1].timestamp + hash[1].version + 1) % (TargetMAX + 1)

meets_difficulty_target(hash, target) == Magnitude(hash) <= target

validates_pow(header) ==
    meets_difficulty_target(BlockHeader_hash(header), header.difficulty_target)

RECURSIVE MerkleLevel_RightFirst(_)
\* a variant of the pass that feeds the hasher the right hash of a pair first
MerkleLevel_RightFirst(hashes) ==
    IF Len(hashes) = 0 THEN <<>>
    ELSE IF Len(hashes) = 1 THEN <<Keccak256(<<hashes[1], hashes[1]>>)>>
    ELSE <<Keccak256(<<hashes[2], hashes[1]>>)>>
            \o MerkleLevel_RightFirst(SubSeq(hashes, 3, Len(hashes)))

RECURSIVE MerkleLevel(_)
\* one pass of the while loop of calculate_merkle_root: pair adjacent hashes,
\* an odd last hash is paired with itself
MerkleLevel(hashes) ==
    IF Len(hashes) = 0 THEN <<>>
    ELSE IF Len(hashes) = 1 THEN <<Keccak256(<<hashes[1], hashes[1]>>)>>
    ELSE <<Keccak256(<<hashes[1], hashes[2]>>)>> \o MerkleLevel(SubSeq(hashes, 3, Len(hashes)))

RECURSIVE MerkleReduce(_)
MerkleReduce(hashes) ==
    IF Len(hashes) = 1 THEN hashes[1] ELSE MerkleReduce(MerkleLevel(hashes))

calculate_merkle_root(transactions) ==
    IF Len(transactions) = 0 THEN ZERO
    ELSE MerkleReduce([i \in 1..Len(transactions) |-> TransactionHash(transactions[i])])

RECURSIVE FirstError(_, _)
\* the first error of a sequence of results, Ok when there is none (the ? operator in a loop)
FirstError(results, i) ==
    IF i > Len(results) THEN Ok
    ELSE IF ~IsOk(results[i]) THEN results[i]
    ELSE FirstError(results, i + 1)

Block_validate(block) ==
    IF ~validates_pow(block.header)
    THEN Err("InvalidProofOfWork", "")
    ELSE IF calculate_merkle_root(block.transactions) # block.header.merkle_root
    THEN Err("InvalidBlockHash", "")
    ELSE FirstError([i \in 1..Len(block.transactions) |->
                        Transaction_validate(block.transactions[i])], 1)

ScriptSize(script) == 8 + Len(script)

RECURSIVE SeqSum(_, _)
SeqSum(s, i) == IF i > Len(s) THEN 0 ELSE s[i] + SeqSum(s, i + 1)

\* bincode length of a transaction: u32 version, two length-prefixed vectors,
\* u32 locktime, the timestamp as a length-prefixed RFC 3339 string
Transaction_size(tx) ==
    4 + 8 + SeqSum([i \in 1..Len(tx.inputs) |->
                      32 + 4 + ScriptSize(tx.inputs[i].script_sig) + 4], 1)
      + 8 + SeqSum([i \in 1..Len(tx.outputs) |->
                      8 + ScriptSize(tx.outputs[i].script_pubkey)], 1)
      + 4 + 28

Block_size(block) ==
    (4 + 32 + 32 + 28 + 32 + 8)
    + 8 + SeqSum([i \in 1..Len(block.transactions) |->
                    Transaction_size(block.transactions[i])], 1)

---------------------------------------------------------------------------
(* Difficulty retargeting (mining.rs) *)

\* A target of the model is lead * (TRAIL_MAX + 1) + trail: lead stands for the
\* first 8 bytes read as a big-endian u64, trail for the 24 bytes after them
\* (TRAIL_MAX when they are all 0xFF).
TRAIL_MAX == 1

\* u64::MAX at the width of lead
LEAD_MAX == (TargetMAX - TRAIL_MAX) \div (TRAIL_MAX + 1)

\* MiningConfig at a reduced scale: seconds per block, blocks per period
TARGET_BLOCK_TIME == 1

DIFFICULTY_ADJUSTMENT_PERIOD == 2

MAX_DIFFICULTY_ADJUSTMENT == Fraction(4, 1)

MIN_DIFFICULTY_ADJUSTMENT == Fraction(1, 4)

target_to_difficulty_approx(target) ==
    LET value == target \div (TRAIL_MAX + 1)
    IN  IF value = 0 THEN Fraction(1, 0) ELSE Fraction(LEAD_MAX, value)

\* (u64::MAX as f64 / difficulty) as u64 saturates; the other 24 bytes are 0xFF
difficulty_to_target_approx(difficulty) ==
    IF difficulty.num <= 0 THEN TargetMAX
    ELSE LET quotient == IF difficulty.den = 0 THEN 0
                         ELSE (LEAD_MAX * difficulty.den) \div difficulty.num
             target_value == IF quotient > LEAD_MAX THEN LEAD_MAX ELSE quotient
         IN  target_value * (TRAIL_MAX + 1) + TRAIL_MAX

adjust_target(current, factor) ==
    LET current_difficulty == target_to_difficulty_approx(current)
        new_difficulty == Fraction(current_difficulty.num * factor.den,
                                   current_difficulty.den * factor.num)
    IN  difficulty_to_target_approx(new_difficulty)

\* history is the argument blocks; a negative duration cast to u64 is a huge one
calculate_next_difficulty(history, current_target) ==
    IF Len(history) < DIFFICULTY_ADJUSTMENT_PERIOD THEN current_target
    ELSE LET first_timestamp ==
                 history[Len(history) - DIFFICULTY_ADJUSTMENT_PERIOD + 1].header.timestamp
             last_timestamp == history[Len(history)].header.timestamp
             actual_time == IF last_timestamp - first_timestamp < 0
                            THEN (U64_MAX + 1) + (last_timestamp - first_timestamp)
                            ELSE last_timestamp - first_timestamp
             target_time == TARGET_BLOCK_TIME * DIFFICULTY_ADJUSTMENT_PERIOD
             low == MIN_DIFFICULTY_ADJUSTMENT
             high == MAX_DIFFICULTY_ADJUSTMENT
             clamped_factor ==
                 IF actual_time * low.den < low.num * target_time THEN low
                 ELSE IF actual_time * high.den > high.num * target_time THEN high
                 ELSE Fraction(actual_time, target_time)
         IN  adjust_target(current_target, clamped_factor)

---------------------------------------------------------------------------
(* Consensus::validate_block (mining.rs) *)

\* MAX_BLOCK_SIZE, 4 MiB in the source, at the scale of the model's blocks: above
\* every block of the catalogue's transactions, within reach of a padded script
MAX_BLOCK_SIZE == 1024

\* a variant of validate_block that also rejects a block of exactly the maximum
validate_block_AtLeast(block, previous_blocks) ==
    IF ~IsOk(Block_validate(block)) THEN Block_validate(block)
    ELSE IF Block_size(block) >= MAX_BLOCK_SIZE
    THEN Err("InvalidTransaction", "Block size exceeds maximum")
    ELSE Ok

\* the test of validate_block that ends in the warning "Difficulty target
\* mismatch": enough predecessors, and a header target other than the expected
difficulty_target_mismatch(block, previous_blocks) ==
    /\ Len(previous_blocks) >= DIFFICULTY_ADJUSTMENT_PERIOD
    /\ block.header.difficulty_target
           # calculate_next_difficulty(previous_blocks, block.header.difficulty_target)

\* a variant of validate_block that rejects a header whose target is not the
\* expected one
validate_block_Strict(block, previous_blocks) ==
    IF ~IsOk(Block_validate(block)) THEN Block_validate(block)
    ELSE IF Block_size(block) > MAX_BLOCK_SIZE
    THEN Err("InvalidTransaction", "Block size exceeds maximum")
    ELSE IF difficulty_target_mismatch(block, previous_blocks)
    THEN Err("InvalidProofOfWork", "Difficulty target mismatch")
    ELSE Ok

\* Consensus::validate_block. calculate_next_difficulty returns no error, and a
\* target mismatch is only printed.
validate_block(block, previous_blocks) ==
    IF ~IsOk(Block_validate(block)) THEN Block_validate(block)
    ELSE IF Block_size(block) > MAX_BLOCK_SIZE
    THEN Err("InvalidTransaction", "Block size exceeds maximum")
    ELSE IF difficulty_target_mismatch(block, previous_blocks)
    THEN Ok
    ELSE Ok

---------------------------------------------------------------------------
(* Script interpreter (script.rs) *)

\* an outcome of execute: ScriptResult::Success, ::Failure, ::Error(msg), or
\* "Err" for Err(BondError::ScriptExecutionFailed) propagated by ? from Stack::push
Outcome(res, msg) == [res |-> res, msg |-> msg]

\* a variant of is_true that takes every non-empty item for true
is_true_NonEmpty(data) == Len(data) > 0

is_true(data) == Len(data) > 0 /\ \E i \in 1..Len(data) : data[i] # 0

\* the state after one opcode: res is what execute_opcode returned
OpState(res, msg, stack, pc) == [res |-> res, msg |-> msg, stack |-> stack, pc |-> pc]

\* Stack::push followed by Ok(ScriptResult::Success)
PushThen(stack, item, pc, max_stack_size) ==
    IF Len(stack) >= max_stack_size
    THEN OpState("Err", "Stack overflow", stack, pc)
    ELSE OpState("Success", "", Append(stack, item), pc)

Pop(stack) == SubSeq(stack, 1, Len(stack) - 1)

\* a variant of the conversion that reads the four bytes most significant first
from_le_bytes_BigEndian(b) == b[4] + 256 * b[3] + 65536 * b[2] + 16777216 * b[1]

from_le_bytes(b) == b[1] + 256 * b[2] + 65536 * b[3] + 16777216 * b[4]

\* pc counts the bytes consumed so far: it already points past the opcode
execute_opcode(opcode, stack, pc, script, context, max_stack_size) ==
    IF opcode >= 1 /\ opcode <= 75
    THEN IF pc + opcode > Len(script)
         THEN OpState("Error", "Script truncated", stack, pc)
         ELSE PushThen(stack, SubSeq(script, pc + 1, pc + opcode), pc + opcode, max_stack_size)
    ELSE IF opcode = 0 THEN PushThen(stack, <<>>, pc, max_stack_size)
    ELSE IF opcode = 81 THEN PushThen(stack, <<1>>, pc, max_stack_size)
    ELSE IF opcode = 118
    THEN IF Len(stack) > 0
         THEN PushThen(stack, stack[Len(stack)], pc, max_stack_size)
         ELSE OpState("Error", "Cannot duplicate empty stack", stack, pc)
    ELSE IF opcode = 135
    THEN IF Len(stack) < 2
         THEN OpState("Error", "Not enough items for OP_EQUAL", stack, pc)
         ELSE PushThen(Pop(Pop(stack)),
                       IF stack[Len(stack)] = stack[Len(stack) - 1] THEN <<1>> ELSE <<0>>,
                       pc, max_stack_size)
    ELSE IF opcode = 105
    THEN IF Len(stack) > 0
         THEN IF is_true(stack[Len(stack)])
              THEN OpState("Success", "", Pop(stack), pc)
              ELSE OpState("Failure", "", stack, pc)
         ELSE OpState("Error", "Cannot verify empty stack", stack, pc)
    ELSE IF opcode = 172
    THEN IF Len(stack) < 2
         THEN OpState("Error", "Not enough items for OP_CHECKSIG", stack, pc)
         ELSE PushThen(Pop(Pop(stack)), <<1>>, pc, max_stack_size)
    ELSE IF opcode = 240
    THEN IF Len(stack) > 0
         THEN IF Len(stack[Len(stack)]) # 4
              THEN OpState("Error", "Invalid block height format", Pop(stack), pc)
              ELSE PushThen(Pop(stack),
                            IF context.block_height >= from_le_bytes(stack[Len(stack)])
                            THEN <<1>> ELSE <<0>>,
                            pc, max_stack_size)
         ELSE OpState("Error", "Cannot check block height on empty stack", stack, pc)
    ELSE OpState("Error", "Unknown opcode", stack, pc)

RECURSIVE Run(_, _, _, _, _, _, _)
\* the while loop of execute from the state (pc, op_count, stack), then the final check
Run(script, context, max_ops, max_stack_size, pc, op_count, stack) ==
    IF pc < Len(script)
    THEN IF op_count + 1 > max_ops
         THEN Outcome("Error", "Operation limit exceeded")
         ELSE LET s == execute_opcode(script[pc + 1], stack, pc + 1, script, context,
                                      max_stack_size)
              IN  IF s.res = "Success"
                  THEN Run(script, context, max_ops, max_stack_size, s.pc, op_count + 1, s.stack)
                  ELSE Outcome(s.res, s.msg)
    ELSE IF Len(stack) = 1
         THEN IF is_true(stack[1]) THEN Outcome("Success", "") ELSE Outcome("Failure", "")
         ELSE Outcome("Error", "Stack must have exactly one item at end")

ScriptInterpreter_execute(script, context, max_ops, max_stack_size) ==
    Run(script, context, max_ops, max_stack_size, 0, 0, <<>>)

ScriptContext(block_height, timestamp, tx_hash, input_index) ==
    [block_height |-> block_height, timestamp |-> timestamp, tx_hash |-> tx_hash,
     input_index |-> input_index]

\* ScriptInterpreter::new(): max_ops and max_stack_size
DEFAULT_MAX_OPS == 1000

DEFAULT_MAX_STACK_SIZE == 100

---------------------------------------------------------------------------
(* ChainState (consensus.rs) *)

ChainState(b, u, h, w) == [blocks |-> b, utxo_set |-> u, height |-> h, total_work |-> w]

EmptyMap == [id \in {} |-> id]

Remove(utxos, id) == [r \in (DOMAIN utxos) \ {id} |-> utxos[r]]

Insert(utxos, id, output) ==
    [r \in (DOMAIN utxos) \cup {id} |-> IF r = id THEN output ELSE utxos[r]]

\* one step of an add_block call: tx is the position of the transaction in the
\* block (0 for a step of the block as a whole)
Ev(step, tx, ref) == [step |-> step, tx |-> tx, ref |-> ref]

Outcome3(utxos, res, tr) == [utxos |-> utxos, result |-> res, trace |-> tr]

\* a faulty validate_transaction that leaves out the comparison of the input
\* value with the output value
validate_transaction_NoFundsCheck(utxos, transaction, first) ==
    IF ~IsOk(Transaction_validate(transaction)) THEN Transaction_validate(transaction)
    ELSE IF first
    THEN IF ~is_coinbase(transaction)
         THEN Err("InvalidTransaction", "First transaction in block must be coinbase")
         ELSE Ok
    ELSE IF is_coinbase(transaction)
    THEN Err("InvalidTransaction", "Coinbase transaction can only be first in block")
    ELSE IF \E i \in 1..Len(transaction.inputs) :
                transaction.inputs[i].previous_output \notin DOMAIN utxos
    THEN Err("InvalidTransaction", "Referenced UTXO not found")
    ELSE Ok

validate_transaction(utxos, transaction, first) ==
    IF ~IsOk(Transaction_validate(transaction)) THEN Transaction_validate(transaction)
    ELSE IF first
    THEN IF ~is_coinbase(transaction)
         THEN Err("InvalidTransaction", "First transaction in block must be coinbase")
         ELSE Ok
    ELSE IF is_coinbase(transaction)
    THEN Err("InvalidTransaction", "Coinbase transaction can only be first in block")
    ELSE IF \E i \in 1..Len(transaction.inputs) :
                transaction.inputs[i].previous_output \notin DOMAIN utxos
    THEN Err("InvalidTransaction", "Referenced UTXO not found")
    ELSE IF total_input_value(transaction, utxos) = -2
    THEN Err("InvalidTransaction", "Referenced UTXO not found")
    ELSE IF total_input_value(transaction, utxos) = -1
    THEN Err("ArithmeticOverflow", "input value sum")
    ELSE IF total_output_value(transaction) = -1
    THEN Err("ArithmeticOverflow", "output value sum")
    ELSE IF total_input_value(transaction, utxos) < total_output_value(transaction)
    THEN InsufficientFunds(total_output_value(transaction),
                           total_input_value(transaction, utxos))
    ELSE Ok

RECURSIVE ValidateTransactions_AfterEarlier(_, _, _)
\* a variant of the validation loop that checks each transaction against the
\* index extended with the outputs of the transactions before it
ValidateTransactions_AfterEarlier(utxos, transactions, k) ==
    IF k > Len(transactions) THEN [result |-> Ok, trace |-> <<>>]
    ELSE LET r == validate_transaction(utxos, transactions[k], k = 1)
             created == {UtxoId(TransactionHash(transactions[k]), j - 1) :
                            j \in 1..Len(transactions[k].outputs)}
             extended == [id \in (DOMAIN utxos) \cup created |->
                            IF id \in created
                            THEN transactions[k].outputs[id.output_index + 1]
                            ELSE utxos[id]]
         IN  IF ~IsOk(r)
             THEN [result |-> r, trace |-> <<Ev("validate_tx", k, COINBASE)>>]
             ELSE LET rest == ValidateTransactions_AfterEarlier(extended, transactions, k + 1)
                  IN  [result |-> rest.result,
                       trace |-> <<Ev("validate_tx", k, COINBASE)>> \o rest.trace]

RECURSIVE ValidateTransactions(_, _, _)
\* the validation loop of add_block from transaction k on: the first error stops it
ValidateTransactions(utxos, transactions, k) ==
    IF k > Len(transactions) THEN [result |-> Ok, trace |-> <<>>]
    ELSE LET r == validate_transaction(utxos, transactions[k], k = 1)
         IN  IF ~IsOk(r)
             THEN [result |-> r, trace |-> <<Ev("validate_tx", k, COINBASE)>>]
             ELSE LET rest == ValidateTransactions(utxos, transactions, k + 1)
                  IN  [result |-> rest.result,
                       trace |-> <<Ev("validate_tx", k, COINBASE)>> \o rest.trace]

RECURSIVE RemoveInputs_IgnoreAbsent(_, _, _, _)
\* a faulty removal loop that passes over a reference it does not find
RemoveInputs_IgnoreAbsent(utxos, inputs, i, k) ==
    IF i > Len(inputs) THEN Outcome3(utxos, Ok, <<>>)
    ELSE LET rest == RemoveInputs_IgnoreAbsent(Remove(utxos, inputs[i].previous_output),
                                               inputs, i + 1, k)
         IN  Outcome3(rest.utxos, rest.result,
                      <<Ev("remove", k, inputs[i].previous_output)>> \o rest.trace)

RECURSIVE RemoveInputs(_, _, _, _)
\* the removal loop of apply_transaction from input i on
RemoveInputs(utxos, inputs, i, k) ==
    IF i > Len(inputs) THEN Outcome3(utxos, Ok, <<>>)
    ELSE IF inputs[i].previous_output \notin DOMAIN utxos
    THEN Outcome3(utxos, DoubleSpending(inputs[i].previous_output),
                  <<Ev("absent", k, inputs[i].previous_output)>>)
    ELSE LET rest == RemoveInputs(Remove(utxos, inputs[i].previous_output), inputs, i + 1, k)
         IN  Outcome3(rest.utxos, rest.result,
                      <<Ev("remove", k, inputs[i].previous_output)>> \o rest.trace)

RECURSIVE InsertOutputs(_, _, _, _)
\* the insertion loop of apply_transaction from output j on (output_index j - 1)
InsertOutputs(utxos, transaction, j, k) ==
    IF j > Len(transaction.outputs) THEN Outcome3(utxos, Ok, <<>>)
    ELSE LET id == UtxoId(TransactionHash(transaction), j - 1)
             rest == InsertOutputs(Insert(utxos, id, transaction.outputs[j]),
                                   transaction, j + 1, k)
         IN  Outcome3(rest.utxos, Ok, <<Ev("insert", k, id)>> \o rest.trace)

apply_transaction(utxos, transaction, k) ==
    LET spent == IF is_coinbase(transaction) THEN Outcome3(utxos, Ok, <<>>)
                 ELSE RemoveInputs(utxos, transaction.inputs, 1, k)
    IN  IF ~IsOk(spent.result) THEN spent
        ELSE LET made == InsertOutputs(spent.utxos, transaction, 1, k)
             IN  Outcome3(made.utxos, Ok, spent.trace \o made.trace)

RECURSIVE apply_block(_, _, _)
\* the loop of apply_block from transaction k on; an error returns at once and
\* what was removed and inserted before it stays
apply_block(utxos, transactions, k) ==
    IF k > Len(transactions) THEN Outcome3(utxos, Ok, <<>>)
    ELSE LET one == apply_transaction(utxos, transactions[k], k)
         IN  IF ~IsOk(one.result) THEN one
             ELSE LET rest == apply_block(one.utxos, transactions, k + 1)
                  IN  Outcome3(rest.utxos, rest.result, one.trace \o rest.trace)

Call(st, res, tr) == [st |-> st, result |-> res, trace |-> tr]

\* a faulty add_block that appends the block although its application failed
add_block_PushOnApplyError(st, block) ==
    LET vb == validate_block(block, st.blocks)
        vt == ValidateTransactions(st.utxo_set, block.transactions, 1)
        ap == apply_block(st.utxo_set, block.transactions, 1)
        t1 == <<Ev("validate_block", 0, COINBASE)>>
    IN  IF ~IsOk(vb) THEN Call(st, vb, t1)
        ELSE IF ~IsOk(vt.result) THEN Call(st, vt.result, t1 \o vt.trace)
        ELSE Call(ChainState(Append(st.blocks, block), ap.utxos, st.height + 1, st.total_work),
                  ap.result, t1 \o vt.trace \o ap.trace \o <<Ev("push", 0, COINBASE)>>)

\* a faulty add_block that applies the transactions before it validates them
add_block_ApplyFirst(st, block) ==
    LET vb == validate_block(block, st.blocks)
        ap == apply_block(st.utxo_set, block.transactions, 1)
        vt == ValidateTransactions(ap.utxos, block.transactions, 1)
        t1 == <<Ev("validate_block", 0, COINBASE)>>
    IN  IF ~IsOk(vb) THEN Call(st, vb, t1)
        ELSE IF ~IsOk(ap.result)
        THEN Call(ChainState(st.blocks, ap.utxos, st.height, st.total_work),
                  ap.result, t1 \o ap.trace)
        ELSE IF ~IsOk(vt.result)
        THEN Call(ChainState(st.blocks, ap.utxos, st.height, st.total_work),
                  vt.result, t1 \o ap.trace \o vt.trace)
        ELSE Call(ChainState(Append(st.blocks, block), ap.utxos, st.height + 1, st.total_work),
                  Ok, t1 \o ap.trace \o vt.trace \o <<Ev("push", 0, COINBASE)>>)

\* a faulty add_block that leaves out Consensus::validate_block
add_block_NoValidateBlock(st, block) ==
    LET vt == ValidateTransactions(st.utxo_set, block.transactions, 1)
        ap == apply_block(st.utxo_set, block.transactions, 1)
        t1 == <<Ev("validate_block", 0, COINBASE)>>
    IN  IF ~IsOk(vt.result) THEN Call(st, vt.result, t1 \o vt.trace)
        ELSE IF ~IsOk(ap.result)
        THEN Call(ChainState(st.blocks, ap.utxos, st.height, st.total_work),
                  ap.result, t1 \o vt.trace \o ap.trace)
        ELSE Call(ChainState(Append(st.blocks, block), ap.utxos, st.height + 1, st.total_work),
                  Ok, t1 \o vt.trace \o ap.trace \o <<Ev("push", 0, COINBASE)>>)

\* a faulty add_block that counts a block whose application failed
add_block_CountOnApplyError(st, block) ==
    LET vb == validate_block(block, st.blocks)
        vt == ValidateTransactions(st.utxo_set, block.transactions, 1)
        ap == apply_block(st.utxo_set, block.transactions, 1)
        t1 == <<Ev("validate_block", 0, COINBASE)>>
    IN  IF ~IsOk(vb) THEN Call(st, vb, t1)
        ELSE IF ~IsOk(vt.result) THEN Call(st, vt.result, t1 \o vt.trace)
        ELSE IF ~IsOk(ap.result)
        THEN Call(ChainState(st.blocks, ap.utxos, st.height + 1, st.total_work),
                  ap.result, t1 \o vt.trace \o ap.trace)
        ELSE Call(ChainState(Append(st.blocks, block), ap.utxos, st.height + 1, st.total_work),
                  Ok, t1 \o vt.trace \o ap.trace \o <<Ev("push", 0, COINBASE)>>)

add_block(st, block) ==
    LET vb == validate_block(block, st.blocks)
        vt == ValidateTransactions(st.utxo_set, block.transactions, 1)
        ap == apply_block(st.utxo_set, block.transactions, 1)
        t1 == <<Ev("validate_block", 0, COINBASE)>>
    IN  IF ~IsOk(vb) THEN Call(st, vb, t1)
        ELSE IF ~IsOk(vt.result) THEN Call(st, vt.result, t1 \o vt.trace)
        ELSE IF ~IsOk(ap.result)
        THEN Call(ChainState(st.blocks, ap.utxos, st.height, st.total_work),
                  ap.result, t1 \o vt.trace \o ap.trace)
        ELSE Call(ChainState(Append(st.blocks, block), ap.utxos, st.height + 1, st.total_work),
                  Ok, t1 \o vt.trace \o ap.trace \o <<Ev("push", 0, COINBASE)>>)

\* Option<&Block> as a sequence of at most one block
latest_block(chain) ==
    IF Len(chain) = 0 THEN <<>> ELSE <<chain[Len(chain)]>>

get_block(chain, h) ==
    IF h < Len(chain) THEN <<chain[h + 1]>> ELSE <<>>

RECURSIVE ValidateChainFrom(_, _)
\* the loop of validate_chain from block i (1-based) on: the first error of
\* validate_block on a block and the blocks before it, or Ok
ValidateChainFrom(chain, i) ==
    IF i > Len(chain) THEN Ok
    ELSE IF ~IsOk(validate_block(chain[i], SubSeq(chain, 1, i - 1)))
    THEN validate_block(chain[i], SubSeq(chain, 1, i - 1))
    ELSE ValidateChainFrom(chain, i + 1)

validate_chain(st) == ValidateChainFrom(st.blocks, 1)

\* SAMPLE_SIZE of calculate_average_block_time, at the scale of the model's chains
SAMPLE_SIZE == 2

\* 0.0
Zero == Fraction(0, 1)

calculate_average_block_time(chain) ==
    IF Len(chain) < 2 THEN Zero
    ELSE LET start_index == IF Len(chain) > SAMPLE_SIZE THEN Len(chain) - SAMPLE_SIZE ELSE 0
             sample_blocks == SubSeq(chain, start_index + 1, Len(chain))
         IN  IF Len(sample_blocks) < 2 THEN Zero
             ELSE Fraction(sample_blocks[Len(sample_blocks)].header.timestamp
                             - sample_blocks[1].header.timestamp,
                           Len(sample_blocks) - 1)

RECURSIVE SumValues(_, _)
\* the values of the outputs stored under the references ids, added up
SumValues(utxos, ids) ==
    IF ids = {} THEN 0
    ELSE LET id == CHOOSE r \in ids : TRUE
         IN  utxos[id].value + SumValues(utxos, ids \ {id})

ChainStats(height_, total_transactions, utxo_count, total_supply, average_block_time) ==
    [panicked |-> FALSE, height |-> height_, total_transactions |-> total_transactions,
     utxo_count |-> utxo_count, total_supply |-> total_supply,
     average_block_time |-> average_block_time]

\* stats does not return: "attempt to add with overflow"
Panicked ==
    [panicked |-> TRUE, height |-> 0, total_transactions |-> 0, utxo_count |-> 0,
     total_supply |-> 0, average_block_time |-> Zero]

\* ChainState::stats. The u64 values are added by Iterator::sum, which panics on
\* overflow in a build with overflow checks and wraps in a build without.
stats(st, overflow_checks) ==
    LET sum == SumValues(st.utxo_set, DOMAIN st.utxo_set)
    IN  IF sum > U64_MAX /\ overflow_checks THEN Panicked
        ELSE ChainStats(st.height,
                        SeqSum([i \in 1..Len(st.blocks) |-> Len(st.blocks[i].transactions)], 1),
                        Cardinality(DOMAIN st.utxo_set),
                        sum % (U64_MAX + 1),
                        calculate_average_block_time(st.blocks))

\* create_genesis_block: the genesis timestamp is time 0 of the model, the reward
\* 5 BND, the message a two-byte script
GenesisReward == 5

\* a variant of the genesis block whose header keeps the placeholder root
create_genesis_block_ZeroRoot ==
    Block(BlockHeader(1, ZERO, ZERO, 0, TargetMAX, 0),
          <<coinbase(GenesisReward, <<65, 66>>, 0)>>)

GenesisTx == coinbase(GenesisReward, <<65, 66>>, 0)

create_genesis_block ==
    Block(BlockHeader(1, ZERO, calculate_merkle_root(<<GenesisTx>>), 0, TargetMAX, 0),
          <<GenesisTx>>)

\* ChainState::new_with_genesis: add_block on the empty state
new_with_genesis(genesis_block) ==
    add_block(ChainState(<<>>, EmptyMap, 0, 0), genesis_block)

---------------------------------------------------------------------------
(* ProgrammableUtxo: spending conditions (utxo.rs) *)

TimeLock(lock_type, value) == [lock_type |-> lock_type, value |-> value]

RateLimit(max_value_per_window, window_seconds, current_window_start, spent_in_window) ==
    [max_value_per_window |-> max_value_per_window, window_seconds |-> window_seconds,
     current_window_start |-> current_window_start, spent_in_window |-> spent_in_window]

\* the fields of a ProgrammableUtxo that can_spend reads; rate_limits is a
\* sequence of at most one RateLimit (Option)
ProgrammableUtxo(block_height, time_locks, rate_limits) ==
    [block_height |-> block_height, time_locks |-> time_locks, rate_limits |-> rate_limits]

\* a BondResult<bool>: "true", "false" or "ArithmeticOverflow"
OkBool(b) == IF b THEN "true" ELSE "false"

\* the cast `as u32` of a u64
AsU32(v) == v % (U32_MAX + 1)

\* check_time_lock with a block-height lock that holds up to its height
check_time_lock_Expiring(utxo, time_lock, current_block_height, current_timestamp) ==
    IF time_lock.lock_type = "BlockHeight"
    THEN OkBool(current_block_height <= AsU32(time_lock.value))
    ELSE IF time_lock.lock_type = "Timestamp"
    THEN OkBool(current_timestamp >= time_lock.value)
    ELSE IF time_lock.lock_type = "RelativeBlocks"
    THEN IF utxo.block_height + AsU32(time_lock.value) > U32_MAX
         THEN "ArithmeticOverflow"
         ELSE OkBool(current_block_height >= utxo.block_height + AsU32(time_lock.value))
    ELSE "true"

check_time_lock(utxo, time_lock, current_block_height, current_timestamp) ==
    IF time_lock.lock_type = "BlockHeight"
    THEN OkBool(current_block_height >= AsU32(time_lock.value))
    ELSE IF time_lock.lock_type = "Timestamp"
    THEN OkBool(current_timestamp >= time_lock.value)
    ELSE IF time_lock.lock_type = "RelativeBlocks"
    THEN IF utxo.block_height + AsU32(time_lock.value) > U32_MAX
         THEN "ArithmeticOverflow"
         ELSE OkBool(current_block_height >= utxo.block_height + AsU32(time_lock.value))
    ELSE "true"

\* check_rate_limit with the limit itself still allowed inside a window
check_rate_limit_AtMost(rate_limit, current_timestamp) ==
    IF rate_limit.current_window_start + rate_limit.window_seconds > U64_MAX
    THEN "ArithmeticOverflow"
    ELSE IF current_timestamp >= rate_limit.current_window_start + rate_limit.window_seconds
    THEN "true"
    ELSE OkBool(rate_limit.spent_in_window <= rate_limit.max_value_per_window)

check_rate_limit(rate_limit, current_timestamp) ==
    IF rate_limit.current_window_start + rate_limit.window_seconds > U64_MAX
    THEN "ArithmeticOverflow"
    ELSE IF current_timestamp >= rate_limit.current_window_start + rate_limit.window_seconds
    THEN "true"
    ELSE OkBool(rate_limit.spent_in_window < rate_limit.max_value_per_window)

RECURSIVE CheckTimeLocks(_, _, _, _)
\* the loop of can_spend over the time locks from lock i on: the first result
\* that is not Ok(true), or Ok(true)
CheckTimeLocks(utxo, i, current_block_height, current_timestamp) ==
    IF i > Len(utxo.time_locks) THEN "true"
    ELSE LET r == check_time_lock(utxo, utxo.time_locks[i], current_block_height,
                                  current_timestamp)
         IN  IF r # "true" THEN r
             ELSE CheckTimeLocks(utxo, i + 1, current_block_height, current_timestamp)

can_spend(utxo, current_block_height, current_timestamp) ==
    IF CheckTimeLocks(utxo, 1, current_block_height, current_timestamp) # "true"
    THEN CheckTimeLocks(utxo, 1, current_block_height, current_timestamp)
    ELSE IF Len(utxo.rate_limits) > 0
    THEN check_rate_limit(utxo.rate_limits[1], current_timestamp)
    ELSE "true"

---------------------------------------------------------------------------
(* The blocks submitted to add_block *)

GenesisOut == UtxoId(TransactionHash(GenesisTx), 0)

\* a second coinbase, of another time
Cb1 == coinbase(2, <<>>, 1)

\* spends the genesis output, fee 2, script PUSH_ONE
T1 == Transaction(1, <<TransactionInput(GenesisOut, <<81>>, 0)>>,
                  <<TransactionOutput(3, <<>>)>>, 0, 1)

\* names the genesis output twice and pays out more than it holds
TDup == Transaction(1, <<TransactionInput(GenesisOut, <<81>>, 0),
                         TransactionInput(GenesisOut, <<81>>, 0)>>,
                    <<TransactionOutput(7, <<>>)>>, 0, 1)

\* pays out more than its input holds
TOver == Transaction(1, <<TransactionInput(GenesisOut, <<81>>, 0)>>,
                     <<TransactionOutput(6, <<>>)>>, 0, 1)

\* spends the output of T1, script PUSH_EMPTY
TChain == Transaction(1, <<TransactionInput(UtxoId(TransactionHash(T1), 0), <<0>>, 0)>>,
                      <<TransactionOutput(3, <<>>)>>, 0, 2)

TxCatalogue == {GenesisTx, Cb1, T1, TDup, TOver, TChain}

\* the transaction lists of candidate blocks: up to MaxTxs transactions of the
\* catalogue in any order, none of them twice
TxLists ==
    {l \in UNION {[1..n -> TxCatalogue] : n \in 0..MaxTxs} :
        \A i, j \in 1..Len(l) : i # j => l[i] # l[j]}

TipHash(chain) == IF Len(chain) = 0 THEN ZERO ELSE BlockHeader_hash(chain[Len(chain)].header)

\* a candidate block at the end of a chain: the header carries the Merkle root
\* of the transactions or (rooted = FALSE) the zero root
CandidateBlock(chain, previous_hash, rooted, target, txs) ==
    Block(BlockHeader(1, previous_hash,
                      IF rooted THEN calculate_merkle_root(txs) ELSE ZERO,
                      Len(chain), target, 0),
          txs)

\* the transaction lists submitted under a header that is not the well-formed one
PlainLists == {<<>>, <<Cb1>>, <<GenesisTx>>}

---------------------------------------------------------------------------
(* Miner (mining.rs) *)

\* u64 nonces at a reduced width: the nonces are 0..NONCE_MAX
NONCE_MAX == 3

\* what mine_block returns: Ok(header) or Err(InvalidProofOfWork {hash, target});
\* header holds the returned header, or nothing
MineOk(h) == [kind |-> "Ok", hash |-> "", target |-> h.difficulty_target, header |-> <<h>>]

InvalidProofOfWork(hash, target) ==
    [kind |-> "InvalidProofOfWork", hash |-> hash, target |-> target, header |-> <<>>]

\* no call has returned yet
NoResult == [kind |-> "None", hash |-> "", target |-> TargetMAX, header |-> <<>>]

\* the header templates handed to mine_block: BlockHeader::new at the hours 0
\* to 2 with the hardest, three middle and the easiest target, carrying nonce 0
\* (create_mining_header) or the largest nonce
MineTemplates ==
    {BlockHeader(1, ZERO, ZERO, timestamp, target, nonce) :
        timestamp \in 0..2, target \in {TargetMIN, 1, 2, 3, TargetMAX}, nonce \in {0, NONCE_MAX}}

\* the bytes of the scripts executed: the opcodes OP_0, PUSH 1, PUSH 2, OP_1,
\* OP_VERIFY, OP_DUP, OP_EQUAL, OP_CHECKSIG, OP_CHECKBLOCKHEIGHT and a byte
\* outside the table
ScriptBytes == {0, 1, 2, 81, 105, 118, 135, 172, 240, 255}

\* longest script of the enumeration
MaxScriptLen == 3

\* scripts with a four-byte height operand (met, not met), and with five opcodes
LongScripts ==
    {<<4, 1, 0, 0, 0, 240>>, <<4, 2, 0, 0, 0, 240>>, <<81, 118, 118, 135, 105>>}

Scripts == UNION {[1..n -> ScriptBytes] : n \in 0..MaxScriptLen} \cup LongScripts

\* the interpreters: with_limits(max_ops, max_stack_size) and new()
Limits == {<<1, 1>>, <<2, 1>>, <<2, 2>>, <<DEFAULT_MAX_OPS, DEFAULT_MAX_STACK_SIZE>>}

\* the context of the executions: block height 1
VmContext == ScriptContext(1, 0, <<>>, 0)

\* most transactions in a list handed to calculate_merkle_root on its own
MaxLeaves == 5

\* the transactions of those lists
LeafTxs == {GenesisTx, Cb1, T1}

RECURSIVE ListsUpTo(_, _)
\* the sequences over a set of length at most n
ListsUpTo(S, n) ==
    IF n = 0 THEN {<<>>}
    ELSE LET shorter == ListsUpTo(S, n - 1)
         IN  shorter \cup {Append(l, x) : l \in {k \in shorter : Len(k) = n - 1}, x \in S}

\* most inputs, and most outputs, of a transaction handed to a function of
\* Transaction on its own
MaxInputs == 3

MaxOutputs == 2

Cb1Out == UtxoId(TransactionHash(Cb1), 0)

\* spends the output of Cb1
TCb == Transaction(1, <<TransactionInput(Cb1Out, <<81>>, 0)>>,
                   <<TransactionOutput(1, <<>>)>>, 0, 2)

\* transaction lists in which a transaction spends an output of an earlier
\* one of the same list, and lists in which none does
TipLists == {<<Cb1>>, <<Cb1, T1>>, <<Cb1, TCb>>, <<Cb1, TChain>>, <<Cb1, T1, TChain>>}

\* the inputs of those transactions: the coinbase input and two spending inputs
CallInputs ==
    {TransactionInput(COINBASE, <<>>, U32_MAX),
     TransactionInput(GenesisOut, <<>>, 0),
     TransactionInput(Cb1Out, <<>>, 0)}

\* the values of their outputs
CallValues == {0, 1, U64_MAX \div 2 + 1, U64_MAX}

CallOutputs(values) == ListsUpTo({TransactionOutput(v, <<>>) : v \in values}, MaxOutputs)

CallTxs ==
    {Transaction(version, inputs, outputs, 0, 0) :
        version \in {0, 1},
        inputs \in ListsUpTo(CallInputs, MaxInputs),
        outputs \in CallOutputs(CallValues)}

\* the indexes handed to total_input_value: each of the two references absent
\* or holding an output of value 1, half range or maximum
CallIndexes ==
    UNION {[ids -> {TransactionOutput(v, <<>>) : v \in CallValues \ {0}}] :
              ids \in SUBSET {GenesisOut, Cb1Out}}

\* the header targets of the blocks handed to validate_block in pairs: the
\* hardest, and three of those difficulty_to_target_approx produces
CallTargets == {TargetMIN, 3, 5, TargetMAX}

\* most time locks of an output handed to can_spend
MaxLocks == 2
\* the amounts and the times of the rate limits tried
CallWindowValues == {0, 1, 2}
CallWindowTimes == {0, 1, 2, U64_MAX}

\* the time locks of those outputs: values below, at the top of and above the
\* range of u32
CallLocks ==
    {TimeLock(lock_type, value) :
        lock_type \in {"BlockHeight", "Timestamp", "RelativeBlocks", "RelativeTime"},
        value \in {0, 1, U32_MAX + 1, U64_MAX}}

\* a block of one coinbase whose extra data is a run of n zero bytes, followed
\* by the transactions rest
PaddedBlock(n, rooted, target, rest) ==
    CandidateBlock(<<>>, ZERO, rooted, target,
                   <<coinbase(1, [i \in 1..n |-> 0], 0)>> \o rest)

\* the padding that brings a block of one coinbase to exactly MAX_BLOCK_SIZE
FullPadding == MAX_BLOCK_SIZE - Block_size(PaddedBlock(0, TRUE, TargetMAX, <<>>))

\* script_sig contents tried by the calls of signature_hash
SigScripts == {<<>>, <<0>>, <<81>>}

---------------------------------------------------------------------------
(* Inputs of calculate_next_difficulty *)

\* longest history handed to calculate_next_difficulty
MaxHistory == 4

\* the histories: blocks with any timestamps of the hours 0 to 3
Histories ==
    UNION {[1..n -> {Block(BlockHeader(1, ZERO, ZERO, timestamp, TargetMAX, 0), <<>>) :
                        timestamp \in 0..3}] : n \in 0..MaxHistory}

---------------------------------------------------------------------------
(* State machine *)

\* no call of calculate_next_difficulty yet
RetargetInit ==
    /\ dc_history = <<>>
    /\ dc_current_target = TargetMAX
    /\ dc_next_target = TargetMAX
    /\ dc_called = FALSE

\* no execute call yet
VmInit ==
    /\ vm_script = <<>>
    /\ vm_max_ops = DEFAULT_MAX_OPS
    /\ vm_max_stack_size = DEFAULT_MAX_STACK_SIZE
    /\ vm_pc = 0
    /\ vm_op_count = 0
    /\ vm_stack = <<>>
    /\ vm_state = "idle"
    /\ vm_result = Outcome("None", "")

\* Miner::with_config, and no thread in mine_block
CallInit ==
    /\ fn_name = "none"
    /\ fn_args = <<>>
    /\ fn_ret = <<>>

MinerInit ==
    /\ should_stop = FALSE
    /\ hashes_attempted = 0
    /\ miner_pc = "idle"
    /\ mine_header = BlockHeader(1, ZERO, ZERO, 0, TargetMAX, 0)
    /\ mine_nonce = 0
    /\ mine_result = NoResult
    /\ requested = FALSE

Init ==
    LET g == new_with_genesis(create_genesis_block)
    IN  /\ blocks = g.st.blocks
        /\ utxo_set = g.st.utxo_set
        /\ height = g.st.height
        /\ total_work = g.st.total_work
        /\ result = g.result
        /\ trace = g.trace
        /\ MinerInit
        /\ VmInit
        /\ RetargetInit
        /\ CallInit

\* one call of add_block on a chain shorter than limit
AddBlockUpTo(limit, block) ==
    /\ Len(blocks) < limit
    /\ \E c \in {add_block(ChainState(blocks, utxo_set, height, total_work), block)} :
        /\ blocks' = c.st.blocks
        /\ utxo_set' = c.st.utxo_set
        /\ height' = c.st.height
        /\ total_work' = c.st.total_work
        /\ result' = c.result
        /\ trace' = c.trace
    /\ UNCHANGED notChainVars

\* a block whose header links to the tip, carries the right Merkle root and the
\* easiest target, over any list of transactions
SubmitBlockUpTo(limit) ==
    \E txs \in TxLists :
        AddBlockUpTo(limit, CandidateBlock(blocks, TipHash(blocks), TRUE, TargetMAX, txs))

\* a block whose header links to nothing, carries the zero root or the hardest target
SubmitOddHeaderUpTo(limit) ==
    \E txs \in PlainLists, linked \in BOOLEAN, rooted \in BOOLEAN,
       target \in {TargetMAX, TargetMIN} :
        /\ ~(linked /\ rooted /\ target = TargetMAX)
        /\ AddBlockUpTo(limit, CandidateBlock(blocks,
                                              IF linked THEN TipHash(blocks) ELSE ZERO,
                                              rooted, target, txs))

SubmitBlock == SubmitBlockUpTo(MaxBlocks)

SubmitOddHeader == SubmitOddHeaderUpTo(MaxBlocks)

Next == SubmitBlock \/ SubmitOddHeader

Spec == Init /\ [][Next]_vars

\* the same calls on chains one block longer
SubmitBlockDeep == SubmitBlockUpTo(MaxBlocks + 1)

SubmitOddHeaderDeep == SubmitOddHeaderUpTo(MaxBlocks + 1)

NextDeep == SubmitBlockDeep \/ SubmitOddHeaderDeep

SpecDeep == Init /\ [][NextDeep]_vars

\* the skew the timestamp helper of the chaos tests allows, in hours: one block
\* is submitted per hour, the block at the end of a chain of n blocks at hour n
MAX_FUTURE_SKEW == 2

Timestamps == 0..(MaxBlocks + MAX_FUTURE_SKEW + 1)

\* a candidate block with a well-formed header but for its timestamp
TimedBlock(chain, timestamp, txs) ==
    Block(BlockHeader(1, TipHash(chain), calculate_merkle_root(txs), timestamp, TargetMAX, 0),
          txs)

SubmitTimed ==
    \E txs \in PlainLists, timestamp \in Timestamps :
        AddBlockUpTo(MaxBlocks, TimedBlock(blocks, timestamp, txs))

NextTime == SubmitTimed

SpecTime == Init /\ [][NextTime]_vars

\* a thread calls mine_block with a header template (the miner is not mining)
MineCall ==
    /\ miner_pc \in {"idle", "done"}
    /\ \E h \in MineTemplates : mine_header' = h
    /\ miner_pc' = "reset"
    /\ mine_result' = NoResult
    /\ requested' = FALSE
    /\ UNCHANGED <<should_stop, hashes_attempted, mine_nonce, notMinerVars>>

\* the statements of mine_block before its loop: the flag is stored false, the
\* statistics are reset, the nonce starts at 0
MineReset ==
    /\ miner_pc = "reset"
    /\ should_stop' = FALSE
    /\ hashes_attempted' = 0
    /\ mine_nonce' = 0
    /\ miner_pc' = "check"
    /\ UNCHANGED <<mine_header, mine_result, requested, notMinerVars>>

\* a faulty top of the iteration that does not look at the flag
MineCheck_Deaf ==
    /\ miner_pc = "check"
    /\ miner_pc' = "hash"
    /\ UNCHANGED <<should_stop, hashes_attempted, mine_header, mine_nonce, mine_result,
                   requested, notMinerVars>>

\* the top of an iteration: the flag is loaded
MineCheck ==
    /\ miner_pc = "check"
    /\ IF should_stop
       THEN /\ mine_result' = InvalidProofOfWork("Mining stopped", mine_header.difficulty_target)
            /\ miner_pc' = "done"
       ELSE /\ miner_pc' = "hash"
            /\ UNCHANGED mine_result
    /\ UNCHANGED <<should_stop, hashes_attempted, mine_header, mine_nonce, requested, notMinerVars>>

\* a faulty iteration that hashes the header before it sets the nonce
MineHash_StaleNonce ==
    /\ miner_pc = "hash"
    /\ mine_header' = [mine_header EXCEPT !.nonce = mine_nonce]
    /\ \E overflow_checks \in BOOLEAN :
        IF hashes_attempted = NONCE_MAX /\ overflow_checks
        THEN /\ miner_pc' = "panicked"
             /\ UNCHANGED <<hashes_attempted, mine_nonce, mine_result>>
        ELSE /\ hashes_attempted' = (hashes_attempted + 1) % (NONCE_MAX + 1)
             /\ IF meets_difficulty_target(BlockHeader_hash(mine_header),
                                           mine_header.difficulty_target)
                THEN /\ mine_result' = MineOk(mine_header')
                     /\ miner_pc' = "done"
                     /\ UNCHANGED mine_nonce
                ELSE /\ mine_nonce' = (mine_nonce + 1) % (NONCE_MAX + 1)
                     /\ IF mine_nonce' = 0
                        THEN /\ mine_result' =
                                    InvalidProofOfWork("Nonce space exhausted",
                                                       mine_header.difficulty_target)
                             /\ miner_pc' = "done"
                        ELSE /\ miner_pc' = "check"
                             /\ UNCHANGED mine_result
    /\ UNCHANGED <<should_stop, requested, notMinerVars>>

\* the rest of the iteration: the nonce is set, the header hashed, the u64
\* counter of the statistics incremented (at the width of the nonces: the
\* increment after NONCE_MAX hashes overflows, which panics in a build with
\* overflow checks and wraps to 0 in one without), the hash compared with the
\* target, the nonce incremented with wrap-around
MineHash ==
    /\ miner_pc = "hash"
    /\ mine_header' = [mine_header EXCEPT !.nonce = mine_nonce]
    /\ \E overflow_checks \in BOOLEAN :
        IF hashes_attempted = NONCE_MAX /\ overflow_checks
        THEN /\ miner_pc' = "panicked"
             /\ UNCHANGED <<hashes_attempted, mine_nonce, mine_result>>
        ELSE /\ hashes_attempted' = (hashes_attempted + 1) % (NONCE_MAX + 1)
             /\ IF meets_difficulty_target(BlockHeader_hash(mine_header'),
                                           mine_header.difficulty_target)
                THEN /\ mine_result' = MineOk(mine_header')
                     /\ miner_pc' = "done"
                     /\ UNCHANGED mine_nonce
                ELSE /\ mine_nonce' = (mine_nonce + 1) % (NONCE_MAX + 1)
                     /\ IF mine_nonce' = 0
                        THEN /\ mine_result' =
                                    InvalidProofOfWork("Nonce space exhausted",
                                                       mine_header.difficulty_target)
                             /\ miner_pc' = "done"
                        ELSE /\ miner_pc' = "check"
                             /\ UNCHANGED mine_result
    /\ UNCHANGED <<should_stop, requested, notMinerVars>>

\* Miner::stop, or a store of true through a handle of stop_handle, by another thread
Stop ==
    /\ should_stop' = TRUE
    /\ requested' = (requested \/ miner_pc \in {"reset", "check", "hash"})
    /\ UNCHANGED <<hashes_attempted, miner_pc, mine_header, mine_nonce, mine_result, notMinerVars>>

NextMine == MineCall \/ MineReset \/ MineCheck \/ MineHash \/ Stop

SpecMine == Init /\ [][NextMine]_vars

\* the miner with nobody to stop it; a thread in mine_block keeps running
NextMineAlone == MineCall \/ MineReset \/ MineCheck \/ MineHash

SpecMineAlone ==
    Init /\ [][NextMineAlone]_vars /\ WF_vars(MineReset \/ MineCheck \/ MineHash)

\* the call of execute on an interpreter: the statements before the loop (every
\* call starts from a new stack, so one call is followed)
VmExecute ==
    /\ vm_state = "idle"
    /\ \E script \in Scripts, limits \in Limits :
        /\ vm_script' = script
        /\ vm_max_ops' = limits[1]
        /\ vm_max_stack_size' = limits[2]
    /\ vm_pc' = 0
    /\ vm_op_count' = 0
    /\ vm_stack' = <<>>
    /\ vm_state' = "running"
    /\ vm_result' = Outcome("None", "")
    /\ UNCHANGED notVmVars

\* a faulty iteration that compares the count with the limit before it counts
VmStep_LateLimit ==
    /\ vm_state = "running"
    /\ vm_pc < Len(vm_script)
    /\ vm_op_count' = vm_op_count + 1
    /\ IF vm_op_count > vm_max_ops
       THEN /\ vm_result' = Outcome("Error", "Operation limit exceeded")
            /\ vm_state' = "done"
            /\ UNCHANGED <<vm_pc, vm_stack>>
       ELSE \E s \in {execute_opcode(vm_script[vm_pc + 1], vm_stack, vm_pc + 1, vm_script,
                                      VmContext, vm_max_stack_size)} :
               /\ vm_pc' = s.pc
               /\ vm_stack' = s.stack
               /\ IF s.res = "Success"
                  THEN UNCHANGED <<vm_state, vm_result>>
                  ELSE /\ vm_result' = Outcome(s.res, s.msg)
                       /\ vm_state' = "done"
    /\ UNCHANGED <<vm_script, vm_max_ops, vm_max_stack_size, notVmVars>>

\* one iteration of the loop of execute
VmStep ==
    /\ vm_state = "running"
    /\ vm_pc < Len(vm_script)
    /\ vm_op_count' = vm_op_count + 1
    /\ IF vm_op_count' > vm_max_ops
       THEN /\ vm_result' = Outcome("Error", "Operation limit exceeded")
            /\ vm_state' = "done"
            /\ UNCHANGED <<vm_pc, vm_stack>>
       ELSE \E s \in {execute_opcode(vm_script[vm_pc + 1], vm_stack, vm_pc + 1, vm_script,
                                      VmContext, vm_max_stack_size)} :
               /\ vm_pc' = s.pc
               /\ vm_stack' = s.stack
               /\ IF s.res = "Success"
                  THEN UNCHANGED <<vm_state, vm_result>>
                  ELSE /\ vm_result' = Outcome(s.res, s.msg)
                       /\ vm_state' = "done"
    /\ UNCHANGED <<vm_script, vm_max_ops, vm_max_stack_size, notVmVars>>

\* a faulty end of execute that looks at the top item whatever lies below it
VmFinish_TopOnly ==
    /\ vm_state = "running"
    /\ vm_pc >= Len(vm_script)
    /\ vm_result' = IF Len(vm_stack) >= 1
                     THEN IF is_true(vm_stack[Len(vm_stack)])
                          THEN Outcome("Success", "")
                          ELSE Outcome("Failure", "")
                     ELSE Outcome("Error", "Stack must have exactly one item at end")
    /\ vm_state' = "done"
    /\ UNCHANGED <<vm_script, vm_max_ops, vm_max_stack_size, vm_pc, vm_op_count, vm_stack,
                   notVmVars>>

\* the end of execute: the program counter reached the end of the script
VmFinish ==
    /\ vm_state = "running"
    /\ vm_pc >= Len(vm_script)
    /\ vm_result' = IF Len(vm_stack) = 1
                     THEN IF is_true(vm_stack[Len(vm_stack)])
                          THEN Outcome("Success", "")
                          ELSE Outcome("Failure", "")
                     ELSE Outcome("Error", "Stack must have exactly one item at end")
    /\ vm_state' = "done"
    /\ UNCHANGED <<vm_script, vm_max_ops, vm_max_stack_size, vm_pc, vm_op_count, vm_stack,
                   notVmVars>>

NextVm == VmExecute \/ VmStep \/ VmFinish

SpecVm == Init /\ [][NextVm]_vars

\* the call of calculate_next_difficulty on a history and a current target
RetargetCall ==
    /\ ~dc_called
    /\ \E history \in Histories, current_target \in TargetMIN..TargetMAX :
        /\ dc_history' = history
        /\ dc_current_target' = current_target
        /\ dc_next_target' = calculate_next_difficulty(history, current_target)
    /\ dc_called' = TRUE
    /\ UNCHANGED notRetargetVars

NextRetarget == RetargetCall

SpecRetarget == Init /\ [][NextRetarget]_vars

\* one call of a function on its own: the arguments and what it returned
CallOf(name, args, ret) ==
    /\ fn_name = "none"
    /\ fn_name' = name
    /\ fn_args' = args
    /\ fn_ret' = ret
    /\ UNCHANGED notCallVars

\* signature_hash on input k of a transaction, and on input k of the same
\* transaction carrying other script_sig bytes
CallSignatureHash ==
    /\ fn_name = "none"
    /\ \E tx \in TxCatalogue : \E k \in 1..Len(tx.inputs) :
           \E sigs \in [1..Len(tx.inputs) -> SigScripts] :
               \E other \in {[tx EXCEPT !.inputs = [i \in 1..Len(tx.inputs) |->
                                 [tx.inputs[i] EXCEPT !.script_sig = sigs[i]]]]} :
                   CallOf("signature_hash", [tx |-> tx, k |-> k, other |-> other],
                          <<signature_hash(tx, tx.inputs[k]),
                            signature_hash(other, other.inputs[k])>>)

\* the root written in the header of a block handed to validate: the computed
\* root, the all-zero root (a digest for an empty list), or the root of the
\* transactions in reverse order
HeaderRoot(txs, root) ==
    IF root = "computed" THEN calculate_merkle_root(txs)
    ELSE IF root = "zero" THEN (IF txs = <<>> THEN TransactionHash(Cb1) ELSE ZERO)
    ELSE calculate_merkle_root([i \in 1..Len(txs) |-> txs[Len(txs) + 1 - i]])

\* calculate_merkle_root and validate on a block whose header carries the
\* computed root or another one, under the easiest or the hardest target
CallBlockValidate ==
    /\ fn_name = "none"
    /\ \E txs \in ListsUpTo(LeafTxs, MaxLeaves), target \in {TargetMIN, TargetMAX} :
           \E root \in {"computed", "zero", "reversed"} :
               \E block \in {Block(BlockHeader(1, ZERO, HeaderRoot(txs, root), 0, target, 0),
                                   txs)} :
                   CallOf("Block::validate", block,
                          [root |-> calculate_merkle_root(block.transactions),
                           validate |-> Block_validate(block)])

\* new_with_genesis on the block of create_genesis_block, then stats
CallNewWithGenesis ==
    /\ fn_name = "none"
    /\ \E overflow_checks \in BOOLEAN :
           \E c \in {new_with_genesis(create_genesis_block)} :
               CallOf("new_with_genesis", create_genesis_block,
                      [result |-> c.result, st |-> c.st, stats |-> stats(c.st, overflow_checks)])

CallTransactionValidate ==
    /\ fn_name = "none"
    /\ \E tx \in CallTxs : CallOf("Transaction::validate", tx, Transaction_validate(tx))

\* validate_block on a padded block, and add_block of it on the genesis chain
CallValidateBlock ==
    /\ fn_name = "none"
    /\ \E n \in {0, FullPadding - 1, FullPadding, FullPadding + 1},
          rooted \in BOOLEAN, target \in {TargetMIN, TargetMAX},
          rest \in {<<>>, <<Transaction(0, <<>>, <<>>, 0, 0)>>} :
           \E block \in {PaddedBlock(n, rooted, target, rest)} :
               CallOf("validate_block", block,
                      [size |-> Block_size(block),
                       validate |-> Block_validate(block),
                       result |-> validate_block(block, <<>>),
                       add_block |->
                           add_block(new_with_genesis(create_genesis_block).st, block).result])

\* total_output_value, total_input_value and the validate_transaction of
\* add_block (for a transaction that is not the first of its block) on a
\* transaction and an index
CallTotals ==
    /\ fn_name = "none"
    /\ \E inputs \in ListsUpTo(CallInputs, MaxInputs), outputs \in CallOutputs(CallValues \ {0}),
          utxos \in CallIndexes :
           \E tx \in {Transaction(1, inputs, outputs, 0, 0)} :
               CallOf("totals", [tx |-> tx, utxos |-> utxos],
                      [output |-> total_output_value(tx),
                       input |-> total_input_value(tx, utxos),
                       validate |-> validate_transaction(utxos, tx, FALSE)])

\* can_spend on an output created at one height, asked at another
CallCanSpend ==
    /\ fn_name = "none"
    /\ \E block_height \in {0, U32_MAX}, time_locks \in ListsUpTo(CallLocks, MaxLocks),
          rate_limits \in {<<>>, <<RateLimit(1, U64_MAX, 0, 1)>>},
          current_block_height \in {0, 1, U32_MAX}, current_timestamp \in {0, U64_MAX} :
           \E utxo \in {ProgrammableUtxo(block_height, time_locks, rate_limits)} :
               CallOf("can_spend",
                      [utxo |-> utxo, current_block_height |-> current_block_height,
                       current_timestamp |-> current_timestamp],
                      can_spend(utxo, current_block_height, current_timestamp))

\* can_spend(&self, ..) on an output that carries a rate limit: the call
\* borrows the output immutably, so the output after the call is the output
\* before it
CallCanSpendRateLimited ==
    /\ fn_name = "none"
    /\ \E time_locks \in {<<>>, <<TimeLock("BlockHeight", 1)>>},
          max_value_per_window \in CallWindowValues, window_seconds \in CallWindowTimes,
          current_window_start \in CallWindowTimes, spent_in_window \in CallWindowValues,
          current_block_height \in {0, 1}, current_timestamp \in CallWindowTimes :
           \E utxo \in {ProgrammableUtxo(0, time_locks,
                            <<RateLimit(max_value_per_window, window_seconds,
                                        current_window_start, spent_in_window)>>)} :
               CallOf("can_spend, rate limit",
                      [utxo |-> utxo, current_block_height |-> current_block_height,
                       current_timestamp |-> current_timestamp],
                      [result |-> can_spend(utxo, current_block_height, current_timestamp),
                       utxo |-> utxo])

\* can_spend on an output with time locks only, at a height and a time and
\* again at a height and a time that are not earlier
CallCanSpendLater ==
    /\ fn_name = "none"
    /\ \E block_height \in {0, U32_MAX}, time_locks \in ListsUpTo(CallLocks, MaxLocks),
          h \in {0, 1, U32_MAX}, later_h \in {0, 1, U32_MAX},
          t \in {0, U64_MAX}, later_t \in {0, U64_MAX} :
           /\ h <= later_h
           /\ t <= later_t
           /\ \E utxo \in {ProgrammableUtxo(block_height, time_locks, <<>>)} :
                  CallOf("can_spend, later",
                         [utxo |-> utxo, current_block_height |-> <<h, later_h>>,
                          current_timestamp |-> <<t, later_t>>],
                         <<can_spend(utxo, h, t), can_spend(utxo, later_h, later_t)>>)

NextCalls ==
    \/ CallSignatureHash
    \/ CallBlockValidate
    \/ CallNewWithGenesis
    \/ CallTransactionValidate
    \/ CallValidateBlock
    \/ CallTotals
    \/ CallCanSpend
    \/ CallCanSpendRateLimited
    \/ CallCanSpendLater

SpecCalls == Init /\ [][NextCalls]_vars

\* add_block of a well-formed block over one of the lists of TipLists
SubmitAtTip(txs, timestamp) ==
    AddBlockUpTo(MaxBlocks, TimedBlock(blocks, timestamp, txs))

SubmitChained == \E txs \in TipLists, timestamp \in 0..MaxBlocks : SubmitAtTip(txs, timestamp)

NextTip == SubmitChained

SpecTip == Init /\ [][NextTip]_vars

\* a block at the tip of one coinbase, of a small or the largest reward, alone
\* or followed by the transaction that spends the genesis output
SubmitRewarded ==
    \E reward \in {1, U64_MAX}, timestamp \in {0, 2, 5}, rest \in {<<>>, <<T1>>} :
        AddBlockUpTo(MaxBlocks,
                     TimedBlock(blocks, timestamp,
                                <<coinbase(reward, <<>>, Len(blocks))>> \o rest))

\* stats on the chain state as it is, in a build with or without overflow checks
CallStats ==
    /\ fn_name = "none"
    /\ \E overflow_checks \in BOOLEAN :
           CallOf("stats", ChainState(blocks, utxo_set, height, total_work),
                  stats(ChainState(blocks, utxo_set, height, total_work), overflow_checks))

\* validate_block and add_block on two blocks at the tip that differ in the
\* difficulty target of the header only
CallWithTargets ==
    /\ fn_name = "none"
    /\ \E first \in CallTargets, second \in CallTargets, timestamp \in {0} :
           \E st \in {ChainState(blocks, utxo_set, height, total_work)},
              txs \in {<<coinbase(1, <<>>, Len(blocks))>>} :
               \E b1 \in {Block(BlockHeader(1, TipHash(blocks), calculate_merkle_root(txs),
                                            timestamp, first, 0), txs)},
                  b2 \in {Block(BlockHeader(1, TipHash(blocks), calculate_merkle_root(txs),
                                            timestamp, second, 0), txs)} :
                   CallOf("validate_block, add_block",
                          [previous_blocks |-> blocks, first |-> b1.header, second |-> b2.header],
                          [validate_block |-> <<validate_block(b1, blocks),
                                                validate_block(b2, blocks)>>,
                           add_block |-> <<add_block(st, b1).result, add_block(st, b2).result>>,
                           utxo_set |-> <<add_block(st, b1).st.utxo_set,
                                          add_block(st, b2).st.utxo_set>>,
                           mismatch |-> <<difficulty_target_mismatch(b1, blocks),
                                          difficulty_target_mismatch(b2, blocks)>>])

NextTargets == SubmitRewarded \/ CallWithTargets

SpecTargets == Init /\ [][NextTargets]_vars

NextStats == SubmitRewarded \/ CallStats

\* validate_chain(&self) on the chain state as it is
CallValidateChain ==
    /\ fn_name = "none"
    /\ \E st \in {ChainState(blocks, utxo_set, height, total_work)} :
           CallOf("validate_chain", st, [result |-> validate_chain(st), st |-> st])

NextValidate == SubmitRewarded \/ SubmitOddHeader \/ CallValidateChain

SpecValidate == Init /\ [][NextValidate]_vars

SpecStats == Init /\ [][NextStats]_vars

---------------------------------------------------------------------------
(* Claims about add_block *)

\* C1 (atomic add_block): a call of add_block that returns an error leaves the
\* unspent-output index, the block list and the height exactly as they were
\* before the call.
C1_NoMutationOnError ==
    [][~IsOk(result') =>
          (utxo_set' = utxo_set /\ blocks' = blocks /\ height' = height)]_vars

\* the references of the outputs created by the transactions of a chain
CreatedRefs(chain) ==
    UNION { UNION { { UtxoId(TransactionHash(chain[b].transactions[k]), j - 1) :
                        j \in 1..Len(chain[b].transactions[k].outputs) } :
                    k \in 1..Len(chain[b].transactions) } :
            b \in 1..Len(chain) }

\* the inputs of the non-coinbase transactions of a chain: <<block, transaction, input>>
SpendingInputs(chain) ==
    UNION { UNION { { <<b, k, i>> : i \in 1..Len(chain[b].transactions[k].inputs) } :
                    k \in { n \in 1..Len(chain[b].transactions) :
                               ~is_coinbase(chain[b].transactions[n]) } } :
            b \in 1..Len(chain) }

SpentRef(chain, o) == chain[o[1]].transactions[o[2]].inputs[o[3]].previous_output

ConsumedRefs(chain) == { SpentRef(chain, o) : o \in SpendingInputs(chain) }

\* the output a reference names: output output_index of the transaction hashed
RefOutput(id) == id.tx_hash[1].outputs[id.output_index + 1]

\* C2 (index exactness): the unspent-output index is exactly the map from
\* (hash(tx), i) to tx.outputs[i] over the transactions of the appended blocks,
\* less the references consumed by their non-coinbase transactions.
C2_IndexIsCreatedMinusConsumed ==
    utxo_set = [id \in CreatedRefs(blocks) \ ConsumedRefs(blocks) |-> RefOutput(id)]

\* C3 (double-spend rejection): no reference is consumed by two inputs of
\* non-coinbase transactions of appended blocks; of two transactions that
\* name the same reference only the first is applied.
C3_NoRefConsumedTwice ==
    \A o1, o2 \in SpendingInputs(blocks) :
        o1 # o2 => SpentRef(blocks, o1) # SpentRef(blocks, o2)

\* the transaction names one reference in two of its inputs
CollidingInputs(tx) ==
    \E i, j \in 1..Len(tx.inputs) :
        i # j /\ tx.inputs[i].previous_output = tx.inputs[j].previous_output

\* the call removed a reference for a transaction and then found the same
\* reference absent for the same transaction
SecondOccurrence(tr, i, j) ==
    /\ i < j
    /\ tr[i].step = "remove" /\ tr[j].step = "absent"
    /\ tr[i].tx = tr[j].tx /\ tr[i].ref = tr[j].ref

\* C4 (colliding inputs): a call that reaches the second occurrence of a
\* reference in one transaction stops there with DoubleSpending of that
\* reference; no appended block holds a transaction with colliding inputs, and
\* no output of such a transaction is in the index.
C4_CollidingInputsRejected ==
    /\ \A i, j \in 1..Len(trace) :
            SecondOccurrence(trace, i, j) =>
                /\ j = Len(trace)
                /\ result = DoubleSpending(trace[j].ref)
    /\ \A b \in 1..Len(blocks) : \A k \in 1..Len(blocks[b].transactions) :
            ~CollidingInputs(blocks[b].transactions[k])
    /\ \A tx \in {t \in TxCatalogue : CollidingInputs(t)} :
            \A j \in 1..Len(tx.outputs) :
                UtxoId(TransactionHash(tx), j - 1) \notin DOMAIN utxo_set

C4_Witness ==
    /\ \E i, j \in 1..Len(trace) : SecondOccurrence(trace, i, j)
    /\ result.kind = "DoubleSpending"

\* C5 (coinbase conservation): every appended block holds exactly one coinbase
\* transaction, at index 0, whose single input has sequence 0xFFFFFFFF.
C5_OneCoinbaseFirst ==
    \A b \in 1..Len(blocks) :
        LET txs == blocks[b].transactions
        IN  /\ Len(txs) >= 1
            /\ is_coinbase(txs[1])
            /\ txs[1].inputs[1].sequence = U32_MAX
            /\ \A k \in 2..Len(txs) : ~is_coinbase(txs[k])

\* the sum of the values of the outputs the inputs of a transaction name
ValueIn(tx) ==
    SeqSum([i \in 1..Len(tx.inputs) |-> RefOutput(tx.inputs[i].previous_output).value], 1)

ValueOut(tx) == SeqSum([j \in 1..Len(tx.outputs) |-> tx.outputs[j].value], 1)

\* the call of add_block with the block <<Cb1, tx>> under a well-formed header
SpendCall(tx) ==
    add_block(ChainState(blocks, utxo_set, height, total_work),
              CandidateBlock(blocks, TipHash(blocks), TRUE, TargetMAX, <<Cb1, tx>>))

\* C6 (value conservation): every non-coinbase transaction of an appended
\* block has input values summing to at least its output values; and a block
\* <<coinbase, tx>> where tx spends outputs of the index worth less than what
\* it pays out is rejected with InsufficientFunds{required = output sum,
\* available = input sum}, the state staying as it is.
C6_ValueConserved ==
    /\ \A o \in SpendingInputs(blocks) :
            ValueIn(blocks[o[1]].transactions[o[2]]) >=
                ValueOut(blocks[o[1]].transactions[o[2]])
    /\ \A tx \in TxCatalogue :
            ( /\ ~is_coinbase(tx)
              /\ \A i \in 1..Len(tx.inputs) : tx.inputs[i].previous_output \in DOMAIN utxo_set
              /\ ValueOut(tx) > ValueIn(tx) )
            => /\ SpendCall(tx).result = InsufficientFunds(ValueOut(tx), ValueIn(tx))
               /\ SpendCall(tx).st = ChainState(blocks, utxo_set, height, total_work)

C6_Witness ==
    /\ result.kind = "InsufficientFunds"
    /\ result.required = ValueOut(TOver) /\ result.available = ValueIn(TOver)
    /\ Len(blocks) >= 2

\* C7 (authorization): the script of every input of the non-coinbase
\* transactions of appended blocks executes to Success.
C7_ScriptsSucceed ==
    \A o \in SpendingInputs(blocks) :
        LET tx == blocks[o[1]].transactions[o[2]]
        IN  ScriptInterpreter_execute(tx.inputs[o[3]].script_sig,
                                      ScriptContext(o[1] - 1, tx.timestamp,
                                                    TransactionHash(tx), o[3] - 1),
                                      DEFAULT_MAX_OPS, DEFAULT_MAX_STACK_SIZE).res = "Success"

\* C8 (chain linkage): the previous_hash of every block after the first is the
\* hash of the header of the block before it.
C8_Linked ==
    \A i \in 2..Len(blocks) :
        blocks[i].header.previous_hash = BlockHeader_hash(blocks[i - 1].header)

\* C9 (append-only chain): a call of add_block keeps the block list it found
\* as a prefix of the new one and never lowers the height; the height and the
\* list grow by exactly one when the call succeeds and not at all when it
\* fails, and get_block of a height already present returns what it returned.
C9_AppendOnly ==
    [][/\ Len(blocks') >= Len(blocks)
       /\ SubSeq(blocks', 1, Len(blocks)) = blocks
       /\ height' >= height
       /\ IsOk(result') => (height' = height + 1 /\ Len(blocks') = Len(blocks) + 1)
       /\ ~IsOk(result') => (height' = height /\ blocks' = blocks)
       /\ \A h \in 0..(Len(blocks) - 1) :
              get_block(blocks', h) = get_block(blocks, h)]_vars

C9_Witness == height >= 2 /\ ~IsOk(result) /\ get_block(blocks, 1) # <<>>

\* the phases of add_block
PhaseRank(step) ==
    CASE step = "validate_block" -> 0
      [] step = "validate_tx" -> 1
      [] step \in {"remove", "absent", "insert"} -> 2
      [] step = "push" -> 3

\* the steps of one call come in the order of the phases: validation of the
\* block, validation of the transactions in list order, application in list
\* order with the removals of a transaction before its insertions, the push
TraceInOrder(tr) ==
    /\ Len(tr) >= 1 /\ tr[1].step = "validate_block"
    /\ \A i, j \in 1..Len(tr) :
            i < j => /\ PhaseRank(tr[i].step) <= PhaseRank(tr[j].step)
                     /\ tr[j].step # "validate_block"
                     /\ tr[i].step # "push"
    /\ \A i \in 1..Len(tr) : tr[i].step = "validate_tx" => tr[i].tx = i - 1
    /\ \A i, j \in 1..Len(tr) :
            (i < j /\ PhaseRank(tr[i].step) = 2 /\ PhaseRank(tr[j].step) = 2) =>
                /\ tr[i].tx <= tr[j].tx
                /\ (tr[i].tx = tr[j].tx /\ tr[i].step = "insert") => tr[j].step = "insert"
    /\ \A i \in 1..Len(tr) :
            PhaseRank(tr[i].step) = 2 =>
                \E v \in 1..Len(tr) : tr[v].step = "validate_tx" /\ tr[v].tx = tr[i].tx

Applies(tr) == \E i \in 1..Len(tr) : PhaseRank(tr[i].step) = 2

Pushes(tr) == \E i \in 1..Len(tr) : tr[i].step = "push"

\* C10 (phase ordering): in every call of add_block the steps come in the
\* order of the phases; a call that fails in validation removes and inserts
\* nothing and appends nothing; a call that applies has validated every
\* transaction of the block before; the block is pushed and the height raised
\* only by a call that succeeds, after every transaction was applied.
C10_PhaseOrder ==
    [][/\ TraceInOrder(trace')
       /\ result'.kind \notin {"Ok", "DoubleSpending"} =>
              (~Applies(trace') /\ ~Pushes(trace') /\ utxo_set' = utxo_set)
       /\ Pushes(trace') <=> IsOk(result')
       /\ blocks' # blocks => Pushes(trace')
       /\ height' # height => Pushes(trace')
       /\ IsOk(result') =>
              LET txs == blocks'[Len(blocks')].transactions
              IN  \A k \in 1..Len(txs) :
                      /\ trace'[k + 1] = Ev("validate_tx", k, COINBASE)
                      /\ \E i \in 1..Len(trace') :
                              trace'[i].step = "insert" /\ trace'[i].tx = k]_vars

C10_Witness ==
    /\ IsOk(result)
    /\ \E i, j \in 1..Len(trace) :
            trace[i].step = "remove" /\ trace[j].step = "insert" /\ trace[i].tx = trace[j].tx

\* the least timestamp of the first n blocks of a chain
RECURSIVE MinTimestamp(_, _)
MinTimestamp(chain, n) ==
    IF n = 1 THEN chain[1].header.timestamp
    ELSE LET m == MinTimestamp(chain, n - 1)
         IN  IF chain[n].header.timestamp < m THEN chain[n].header.timestamp ELSE m

\* C11 (timestamp policy): every block after the first has a timestamp at most
\* MAX_FUTURE_SKEW hours past the hour it was submitted at, and greater than
\* the least timestamp of its predecessors (which the median of the last K
\* predecessors is never below, whatever K).
C11_TimestampPolicy ==
    \A i \in 2..Len(blocks) :
        /\ blocks[i].header.timestamp <= (i - 1) + MAX_FUTURE_SKEW
        /\ blocks[i].header.timestamp > MinTimestamp(blocks, i - 1)

\* C12 (cooperative cancellation): an iteration of mine_block that finds the
\* flag set at its top returns Err(InvalidProofOfWork) with the marker
\* "Mining stopped" at once, with no header and no further hash; and that
\* marker is returned by no other step.
C12_CancelAtTop ==
    [][/\ (miner_pc = "check" /\ should_stop /\ miner_pc' # miner_pc) =>
              /\ miner_pc' = "done"
              /\ mine_result' = InvalidProofOfWork("Mining stopped",
                                                   mine_header.difficulty_target)
              /\ mine_result'.header = <<>>
              /\ hashes_attempted' = hashes_attempted
              /\ mine_header' = mine_header
       /\ (mine_result'.hash = "Mining stopped" /\ mine_result' # mine_result) =>
              (miner_pc = "check" /\ should_stop)
       /\ mine_result'.hash = "Nonce space exhausted" => mine_result'.kind # "Ok"]_vars

C12_Witness == mine_result.hash = "Mining stopped" /\ hashes_attempted >= 1

\* no nonce makes the header meet its target
Unreachable(h) ==
    \A n \in 0..NONCE_MAX : ~validates_pow([h EXCEPT !.nonce = n])

\* C13 (no lost cancellation): a mine_block call on a target no nonce
\* satisfies, during which a stop was requested, returns the cancelled error.
C13_StopNeverLost ==
    (miner_pc = "done" /\ requested /\ Unreachable(mine_header)) =>
        mine_result.hash = "Mining stopped"

\* C14 as stated: a returned header validates its proof of work, and with the
\* easiest target mine_block always returns Ok.
C14_ValidAndAlwaysOkWhenEasy ==
    miner_pc = "done" =>
        /\ mine_result.kind = "Ok" => validates_pow(mine_result.header[1])
        /\ mine_header.difficulty_target = TargetMAX => mine_result.kind = "Ok"

\* C14 (mined headers are valid): a returned header validates its proof of
\* work; with the easiest target mine_block returns Ok with nonce 0, unless
\* it found the flag set at the top of its first iteration, and then it
\* returns the cancelled error having hashed nothing.
C14_MinedHeaderValid ==
    miner_pc = "done" =>
        /\ mine_result.kind = "Ok" =>
              /\ validates_pow(mine_result.header[1])
              /\ mine_result.header[1] = mine_header
        /\ mine_header.difficulty_target = TargetMAX =>
              \/ mine_result = MineOk([mine_header EXCEPT !.nonce = 0])
              \/ /\ mine_result.hash = "Mining stopped"
                 /\ hashes_attempted = 0

C14_Witness ==
    /\ miner_pc = "done" /\ mine_result.kind = "Ok"
    /\ mine_result.header[1].nonce > 0
    /\ mine_result.header[1].difficulty_target < TargetMAX

\* C15 (nonce search terminates): with the flag never set, every iteration of
\* a call hashes the local nonce, which goes up by one from iteration to
\* iteration; the call returns Ok exactly at the first nonce whose hash meets
\* the target, returns "Nonce space exhausted" exactly when the nonce wraps
\* to 0 after every nonce missed, and always returns one of the two.
C15_NonceSearchTerminates ==
    /\ [][miner_pc = "hash" =>
             /\ mine_header'.nonce = mine_nonce
             /\ mine_result'.kind = "Ok" <=> validates_pow(mine_header')
             /\ mine_result'.hash = "Nonce space exhausted" <=>
                    (~validates_pow(mine_header') /\ mine_nonce = NONCE_MAX)
             /\ miner_pc' = "check" => mine_nonce' = mine_nonce + 1
             /\ miner_pc' \in {"check", "done"}
             /\ miner_pc' = "done" <=> mine_result'.kind # "None"]_vars
    /\ [](miner_pc = "done" =>
             /\ should_stop = FALSE
             /\ mine_result.kind = "Ok" =>
                    \A n \in 0..(mine_result.header[1].nonce - 1) :
                        ~validates_pow([mine_header EXCEPT !.nonce = n])
             /\ mine_result.kind # "Ok" => Unreachable(mine_header))
    /\ (miner_pc = "reset") ~> (miner_pc = "done")

\* C15 in a build without overflow checks, where no call panics
C15_TerminatesUnlessPanicked ==
    /\ [][(miner_pc = "hash" /\ miner_pc' # "panicked") =>
             /\ mine_header'.nonce = mine_nonce
             /\ mine_result'.kind = "Ok" <=> validates_pow(mine_header')
             /\ mine_result'.hash = "Nonce space exhausted" <=>
                    (~validates_pow(mine_header') /\ mine_nonce = NONCE_MAX)
             /\ miner_pc' = "check" => mine_nonce' = mine_nonce + 1
             /\ miner_pc' \in {"check", "done"}
             /\ miner_pc' = "done" <=> mine_result'.kind # "None"]_vars
    /\ (miner_pc = "reset") ~> (miner_pc \in {"done", "panicked"})

\* the loop of execute and the recursion Run agree on every call
VmAgreesWithRun ==
    vm_state = "done" =>
        vm_result = ScriptInterpreter_execute(vm_script, VmContext, vm_max_ops,
                                              vm_max_stack_size)

\* C16 (script termination rule): when the program counter has reached the
\* end of the script, execute returns Success iff the stack holds exactly one
\* item with a non-zero byte, Failure iff it holds exactly one item without,
\* and Error otherwise; so the empty script returns Error.
C16_TerminationRule ==
    [][/\ (vm_state = "running" /\ vm_pc >= Len(vm_script) /\ vm_state' = "done") =>
              LET one == Len(vm_stack) = 1
                  truthy == one /\ \E i \in 1..Len(vm_stack[1]) : vm_stack[1][i] # 0
              IN  /\ vm_result'.res = "Success" <=> truthy
                  /\ vm_result'.res = "Failure" <=> (one /\ ~truthy)
                  /\ vm_result'.res = "Error" <=> ~one
       /\ (vm_state' = "done" /\ vm_script' = <<>>) => vm_result'.res = "Error"
       /\ vm_result'.res = "Success" => (vm_pc >= Len(vm_script) /\ Len(vm_stack) = 1)]_vars

C16_Witness ==
    /\ vm_state = "done" /\ vm_result.res = "Success"
    /\ Len(vm_script) >= 2 /\ Len(vm_stack) = 1

\* the opcodes dispatched so far by the call
Dispatched ==
    IF vm_result.msg = "Operation limit exceeded" THEN vm_op_count - 1 ELSE vm_op_count

\* C17 (script resource bounds): the stack never holds more than
\* max_stack_size items; at most max_ops opcodes are dispatched, each one
\* moving the program counter on, which never passes the end of the script;
\* "Operation limit exceeded" is returned exactly when an opcode is left to
\* run after max_ops were dispatched.
C17_ResourceBounds ==
    [][/\ Len(vm_stack') <= vm_max_stack_size'
       /\ Dispatched' <= vm_max_ops'
       /\ Dispatched' <= vm_pc' /\ vm_pc' <= Len(vm_script')
       /\ (vm_state = "running" /\ vm_pc < Len(vm_script)) =>
              /\ vm_state' = "done" \/ vm_pc' > vm_pc
              /\ vm_result'.msg = "Operation limit exceeded" <=> vm_op_count = vm_max_ops
              /\ vm_result'.msg = "Operation limit exceeded" =>
                     (vm_result'.res = "Error" /\ vm_stack' = vm_stack)
       /\ vm_state = "running" => vm_state' \in {"running", "done"}]_vars

C17_Witness ==
    /\ vm_result = Outcome("Error", "Operation limit exceeded")
    /\ vm_op_count = vm_max_ops + 1
    /\ Len(vm_stack) = vm_max_stack_size

\* C18 (uniform Error outcome): whatever execute returns with a reason (stack
\* underflow or overflow, truncated push, unknown opcode, malformed height
\* operand, operation limit) is the value ScriptResult::Error.
C18_UniformError ==
    (vm_state = "done" /\ vm_result.msg # "") => vm_result.res = "Error"

\* C19 (difficulty clamp): for a history of at least a period, the returned
\* target divided by the current target lies in [0.25, 4.0], that is,
\* current <= 4 * returned and returned <= 4 * current.
C19_Clamp ==
    (dc_called /\ Len(dc_history) >= DIFFICULTY_ADJUSTMENT_PERIOD) =>
        /\ 4 * dc_next_target >= dc_current_target
        /\ dc_next_target <= 4 * dc_current_target

\* C20 (retarget boundary): the returned target is the current target when
\* the history is shorter than a period, and whenever its length is not a
\* multiple of the period.
C20_OnlyAtBoundary ==
    (dc_called /\ (\/ Len(dc_history) < DIFFICULTY_ADJUSTMENT_PERIOD
                   \/ Len(dc_history) % DIFFICULTY_ADJUSTMENT_PERIOD # 0)) =>
        dc_next_target = dc_current_target

---------------------------------------------------------------------------
(* Claims about functions called on their own *)

\* C21 (signature_hash ignores authorization): the signature hash of input k is
\* the same whatever bytes the script_sig fields of the transaction hold.
C21_IgnoresScriptSig ==
    fn_name = "signature_hash" => fn_ret[1] = fn_ret[2]

\* signature_hash was called on two transactions whose script_sig bytes differ
C21_Witness ==
    /\ fn_name = "signature_hash"
    /\ fn_args.tx # fn_args.other
    /\ fn_ret[1] = fn_ret[2]

\* the reference reduction, one level: hash j of the next level is the digest of
\* hashes 2j-1 and 2j of this one, the last hash standing in for a missing 2j
ReferenceLevel(level) ==
    [j \in 1..((Len(level) + 1) \div 2) |->
        Keccak256(<<level[2 * j - 1],
                    level[IF 2 * j <= Len(level) THEN 2 * j ELSE 2 * j - 1]>>)]

RECURSIVE ReferenceRoot(_)
ReferenceRoot(level) ==
    IF Len(level) = 1 THEN level[1] ELSE ReferenceRoot(ReferenceLevel(level))

\* the value the claim gives for a list of transactions
MerkleValue(txs) ==
    IF Len(txs) = 0 THEN ZERO
    ELSE ReferenceRoot([i \in 1..Len(txs) |-> TransactionHash(txs[i])])

\* C22 (Merkle root): calculate_merkle_root is the reference reduction of the
\* transaction hashes, the all-zero root for no transaction and hash(tx0) for
\* one; validate returns InvalidBlockHash when PoW holds and the header's root
\* differs from that value.
C22_MerkleRoot ==
    fn_name = "Block::validate" =>
        /\ fn_ret.root = MerkleValue(fn_args.transactions)
        /\ Len(fn_args.transactions) = 1 =>
                fn_ret.root = TransactionHash(fn_args.transactions[1])
        /\ (/\ validates_pow(fn_args.header)
            /\ fn_args.header.merkle_root # MerkleValue(fn_args.transactions))
               => fn_ret.validate.kind = "InvalidBlockHash"

\* validate met a wrong root on a block of five transactions, whose levels
\* have 5, 3, 2 and 1 hashes
C22_Witness ==
    /\ fn_name = "Block::validate"
    /\ Len(fn_args.transactions) = 5
    /\ validates_pow(fn_args.header)
    /\ fn_args.header.merkle_root # fn_ret.root
    /\ fn_ret.validate.kind = "InvalidBlockHash"

\* C23 (genesis identity): the genesis block holds one transaction, a coinbase
\* of 5 BND, under a header whose Merkle root is the hash of that transaction;
\* new_with_genesis on it succeeds with height 1, one transaction, one unspent
\* output, stored under (hash(coinbase_tx), 0), and a supply of 5 BND.
C23_GenesisIdentity ==
    fn_name = "new_with_genesis" =>
        LET tx == fn_args.transactions[1]
        IN  /\ Len(fn_args.transactions) = 1
            /\ is_coinbase(tx)
            /\ Len(tx.outputs) = 1
            /\ tx.outputs[1].value = GenesisReward
            /\ fn_args.header.merkle_root = TransactionHash(tx)
            /\ IsOk(fn_ret.result)
            /\ ~fn_ret.stats.panicked
            /\ fn_ret.stats.height = 1
            /\ fn_ret.stats.total_transactions = 1
            /\ fn_ret.stats.utxo_count = 1
            /\ fn_ret.stats.total_supply = GenesisReward
            /\ DOMAIN fn_ret.st.utxo_set = {UtxoId(TransactionHash(tx), 0)}
            /\ fn_ret.st.utxo_set[UtxoId(TransactionHash(tx), 0)] = tx.outputs[1]

\* new_with_genesis returned a chain state holding the genesis block
C23_Witness ==
    /\ fn_name = "new_with_genesis"
    /\ fn_ret.st.blocks = <<fn_args>>
    /\ fn_ret.stats.height = 1

\* the transactions the claim calls structurally valid
StructurallyValid(tx) ==
    /\ tx.version # 0
    /\ Len(tx.outputs) > 0
    /\ \A i \in 1..Len(tx.outputs) : tx.outputs[i].value > 0
    /\ \/ Len(tx.inputs) = 1 /\ tx.inputs[1].previous_output = COINBASE
       \/ Len(tx.inputs) >= 1

\* C24 (structural transaction validation): validate returns Ok exactly on the
\* transactions with a non-zero version, at least one output, no output of
\* value zero and at least one input, and InvalidTransaction on all others.
C24_ValidateIffStructurallyValid ==
    fn_name = "Transaction::validate" =>
        /\ IsOk(fn_ret) <=> StructurallyValid(fn_args)
        /\ ~IsOk(fn_ret) => fn_ret.kind = "InvalidTransaction"

\* validate rejected a coinbase with reward 0
C24_Witness ==
    /\ fn_name = "Transaction::validate"
    /\ fn_args = coinbase(0, <<>>, 0)
    /\ fn_ret.kind = "InvalidTransaction"

\* the error of validate_block for a block above the size limit
TooLarge(r) == r.kind = "InvalidTransaction" /\ r.reason = "Block size exceeds maximum"

\* C25 (block size bound): a block above the maximum size that passes
\* Block::validate is rejected by validate_block and by add_block with the
\* InvalidTransaction that names the size; a block of at most the maximum size
\* is not rejected with that error.
C25_SizeBound ==
    fn_name = "validate_block" =>
        /\ (IsOk(fn_ret.validate) /\ fn_ret.size > MAX_BLOCK_SIZE)
                => TooLarge(fn_ret.result) /\ TooLarge(fn_ret.add_block)
        /\ fn_ret.size <= MAX_BLOCK_SIZE
                => ~TooLarge(fn_ret.result) /\ ~TooLarge(fn_ret.add_block)

\* a block of exactly the maximum size passed validate_block and was added
C25_AtMaximum ==
    /\ fn_name = "validate_block"
    /\ fn_ret.size = MAX_BLOCK_SIZE
    /\ IsOk(fn_ret.result)
    /\ IsOk(fn_ret.add_block)

\* a block one byte above the maximum size was rejected for its size
C25_Witness ==
    /\ fn_name = "validate_block"
    /\ fn_ret.size = MAX_BLOCK_SIZE + 1
    /\ TooLarge(fn_ret.add_block)

\* the mathematical sum of the output values of a transaction
ExactOut(tx) == SeqSum([i \in 1..Len(tx.outputs) |-> tx.outputs[i].value], 1)

\* the inputs of a transaction whose reference is absent from an index
Absent(tx, utxos) ==
    {i \in 1..Len(tx.inputs) : tx.inputs[i].previous_output \notin DOMAIN utxos}

\* the mathematical sum of the values referenced by the first n inputs
ExactIn(tx, utxos, n) ==
    SeqSum([i \in 1..n |-> utxos[tx.inputs[i].previous_output].value], 1)

\* the results of the two sums: a number is Ok(number)
ArithmeticOverflow == -1

ReferenceNotFound == -2

\* what the claim and its correction share: the output sum, the input sum of a
\* coinbase and of a transaction whose references are all present, and the
\* funds check
ExactOrOverflow ==
    LET tx == fn_args.tx
        utxos == fn_args.utxos
    IN  /\ fn_ret.output = IF ExactOut(tx) <= U64_MAX THEN ExactOut(tx)
                           ELSE ArithmeticOverflow
        /\ is_coinbase(tx) => fn_ret.input = 0
        /\ (~is_coinbase(tx) /\ Absent(tx, utxos) = {}) =>
                fn_ret.input = IF ExactIn(tx, utxos, Len(tx.inputs)) <= U64_MAX
                               THEN ExactIn(tx, utxos, Len(tx.inputs))
                               ELSE ArithmeticOverflow
        /\ IsOk(fn_ret.validate) =>
                /\ Absent(tx, utxos) = {}
                /\ ExactIn(tx, utxos, Len(tx.inputs)) >= ExactOut(tx)

\* C26 (checked value sums), as stated: the sums are exact or ArithmeticOverflow,
\* the input sum of a coinbase is 0, the input sum is InvalidTransaction when a
\* referenced output is absent, and validate_transaction accepts no transaction
\* that pays out more than it takes in.
C26_AbsentGivesInvalidTransaction ==
    fn_name = "totals" =>
        /\ ExactOrOverflow
        /\ (~is_coinbase(fn_args.tx) /\ Absent(fn_args.tx, fn_args.utxos) # {}) =>
                fn_ret.input = ReferenceNotFound

\* the first input whose reference is absent
FirstAbsent(tx, utxos) ==
    CHOOSE i \in Absent(tx, utxos) : \A j \in Absent(tx, utxos) : i <= j

\* C26 (checked value sums), corrected: as above, but with an absent reference
\* the input sum is InvalidTransaction only when the values of the inputs before
\* the first absent one fit; when they overflow it is ArithmeticOverflow.
C26_CheckedSums ==
    fn_name = "totals" =>
        /\ ExactOrOverflow
        /\ (~is_coinbase(fn_args.tx) /\ Absent(fn_args.tx, fn_args.utxos) # {}) =>
                fn_ret.input =
                    IF ExactIn(fn_args.tx, fn_args.utxos,
                               FirstAbsent(fn_args.tx, fn_args.utxos) - 1) <= U64_MAX
                    THEN ReferenceNotFound ELSE ArithmeticOverflow

\* the outputs of a transaction add up to more than u64::MAX while its inputs
\* are present: the output sum is ArithmeticOverflow and the transaction is
\* not accepted
C26_Witness ==
    /\ fn_name = "totals"
    /\ ExactOut(fn_args.tx) > U64_MAX
    /\ ~is_coinbase(fn_args.tx) /\ Absent(fn_args.tx, fn_args.utxos) = {}
    /\ fn_ret.output = ArithmeticOverflow
    /\ fn_ret.validate.kind = "ArithmeticOverflow"

\* what the claim gives for one time lock of an output created at height
\* created: the set of results it allows
LockValue(created, lock, h, ts) ==
    IF lock.lock_type = "BlockHeight" THEN {OkBool(h >= lock.value)}
    ELSE IF lock.lock_type = "Timestamp" THEN {OkBool(ts >= lock.value)}
    ELSE IF lock.lock_type = "RelativeBlocks"
    THEN IF created + lock.value > U32_MAX
         THEN {"ArithmeticOverflow", "false"}
         ELSE {OkBool(h >= created + lock.value)}
    ELSE {"true", "false", "ArithmeticOverflow"}

\* C27 (time-lock evaluation): on an output with one time lock and no rate
\* limit can_spend gives: for a block-height lock, whether the current height
\* is at least the lock value; for a timestamp lock, whether the current
\* timestamp is; for a relative lock, whether the current height is at least
\* creation height plus value, or ArithmeticOverflow when that sum is out of
\* range. With several locks it returns false when the first lock that is not
\* satisfied evaluates to false.
C27_TimeLocks ==
    fn_name = "can_spend" =>
        LET utxo == fn_args.utxo
            h == fn_args.current_block_height
            ts == fn_args.current_timestamp
        IN  /\ (Len(utxo.time_locks) = 1 /\ utxo.rate_limits = <<>>) =>
                    fn_ret \in LockValue(utxo.block_height, utxo.time_locks[1], h, ts)
            /\ \A i \in 1..Len(utxo.time_locks) :
                    (/\ \A j \in 1..(i - 1) :
                            check_time_lock(utxo, utxo.time_locks[j], h, ts) = "true"
                     /\ check_time_lock(utxo, utxo.time_locks[i], h, ts) = "false")
                        => fn_ret = "false"

\* the number of blocks average_block_time is taken over
SampleLen(chain) == IF Len(chain) < SAMPLE_SIZE THEN Len(chain) ELSE SAMPLE_SIZE

\* C28 (chain statistics): stats returns the number of blocks, the number of
\* their transactions, the size of the index, the mathematical sum of the
\* unspent values, and the time between the first and the last of the last n
\* blocks divided by n - 1 (0 with fewer than 2 blocks).
C28_Stats ==
    fn_name = "stats" =>
        LET chain == fn_args.blocks
            n == SampleLen(chain)
        IN  /\ ~fn_ret.panicked
            /\ fn_ret.height = Len(chain)
            /\ fn_ret.total_transactions
                   = SeqSum([i \in 1..Len(chain) |-> Len(chain[i].transactions)], 1)
            /\ fn_ret.utxo_count = Cardinality(DOMAIN fn_args.utxo_set)
            /\ fn_ret.total_supply = SumValues(fn_args.utxo_set, DOMAIN fn_args.utxo_set)
            /\ IF Len(chain) < 2 THEN fn_ret.average_block_time.num = 0
               ELSE fn_ret.average_block_time.num * (n - 1)
                       = (chain[Len(chain)].header.timestamp
                            - chain[Len(chain) - n + 1].header.timestamp)
                         * fn_ret.average_block_time.den

\* C28 but for the supply: what stats returns when the unspent values fit
C28_StatsWhenSupplyFits ==
    (fn_name = "stats" /\ SumValues(fn_args.utxo_set, DOMAIN fn_args.utxo_set) <= U64_MAX)
        => C28_Stats

---------------------------------------------------------------------------
(* Claims about add_block, continued *)

\* transaction k of a list spends an output that an earlier transaction of the
\* list creates and that the index does not hold
SpendsWithinBlock(txs, k) ==
    \E i \in 1..Len(txs[k].inputs), j \in 1..(k - 1) :
        /\ txs[k].inputs[i].previous_output.tx_hash = TransactionHash(txs[j])
        /\ txs[k].inputs[i].previous_output.output_index < Len(txs[j].outputs)
        /\ txs[k].inputs[i].previous_output \notin DOMAIN utxo_set

\* the step is the call of add_block on the block of SubmitAtTip(txs, timestamp)
TookStep(txs, timestamp) ==
    LET c == add_block(ChainState(blocks, utxo_set, height, total_work),
                       TimedBlock(blocks, timestamp, txs))
    IN  /\ Len(blocks) < MaxBlocks
        /\ result' = c.result
        /\ trace' = c.trace
        /\ Len(blocks') = Len(c.st.blocks)
        /\ blocks' = c.st.blocks
        /\ utxo_set' = c.st.utxo_set

---------------------------------------------------------------------------
(* Claims about the script interpreter, continued *)

\* the loop of execute is about to dispatch OP_VERIFY
AtVerify ==
    /\ vm_state = "running"
    /\ vm_pc < Len(vm_script)
    /\ vm_op_count < vm_max_ops
    /\ vm_script[vm_pc + 1] = 105

\* the top item of the stack has a non-zero byte
TopTrue == \E i \in 1..Len(vm_stack[Len(vm_stack)]) : vm_stack[Len(vm_stack)][i] # 0

\* C30 (VERIFY): on an empty stack OP_VERIFY ends execute with Error; on a
\* true top item it removes that item and the loop goes on with the next
\* opcode; on a top item that is not true execute returns Failure at once,
\* with the item still on the stack, and nothing runs after that.
C30_Verify ==
    [][/\ AtVerify =>
            IF vm_stack = <<>>
            THEN vm_state' = "done" /\ vm_result'.res = "Error"
            ELSE IF TopTrue
            THEN /\ vm_stack' = SubSeq(vm_stack, 1, Len(vm_stack) - 1)
                 /\ vm_state' = "running"
                 /\ vm_pc' = vm_pc + 1
            ELSE /\ vm_state' = "done"
                 /\ vm_result' = Outcome("Failure", "")
                 /\ vm_stack' = vm_stack
                 /\ ScriptInterpreter_execute(vm_script, VmContext, vm_max_ops,
                                              vm_max_stack_size) = Outcome("Failure", "")
       /\ vm_state = "done" =>
            /\ vm_pc' = vm_pc
            /\ vm_op_count' = vm_op_count
            /\ vm_stack' = vm_stack
            /\ vm_result' = vm_result]_vars

\* execute returned Failure from an OP_VERIFY that found an item on top that is
\* not true, which is still there, with an opcode left in the script
C30_Witness ==
    /\ vm_state = "done"
    /\ vm_result = Outcome("Failure", "")
    /\ vm_pc >= 1 /\ vm_pc < Len(vm_script)
    /\ vm_script[vm_pc] = 105
    /\ vm_stack # <<>>
    /\ ~TopTrue

\* the loop of execute is about to dispatch OP_CHECKBLOCKHEIGHT
AtCheckBlockHeight ==
    /\ vm_state = "running"
    /\ vm_pc < Len(vm_script)
    /\ vm_op_count < vm_max_ops
    /\ vm_script[vm_pc + 1] = 240

\* the height a four-byte item stands for, least significant byte first
RequiredHeight(item) == item[1] + 256 * (item[2] + 256 * (item[3] + 256 * item[4]))

\* C31 (CHECK_BLOCK_HEIGHT): on an empty stack, and on a top item that is not
\* four bytes long, the outcome is Error; on a four-byte item the opcode
\* replaces it by the byte 1 when the block height of the context is at least
\* the little-endian value of the item and by the byte 0 otherwise, and the
\* loop goes on with a stack of the same depth.
C31_CheckBlockHeight ==
    [][AtCheckBlockHeight =>
         IF vm_stack = <<>> \/ Len(vm_stack[Len(vm_stack)]) # 4
         THEN vm_state' = "done" /\ vm_result'.res = "Error"
         ELSE /\ vm_state' = "running"
              /\ Len(vm_stack') = Len(vm_stack)
              /\ vm_stack' = [vm_stack EXCEPT ![Len(vm_stack)] =
                                 IF VmContext.block_height
                                        >= RequiredHeight(vm_stack[Len(vm_stack)])
                                 THEN <<1>> ELSE <<0>>]]_vars

\* OP_CHECKBLOCKHEIGHT replaced the operand of a height above the one of the
\* context by the byte 0
C31_Witness ==
    /\ vm_state = "running"
    /\ vm_pc = Len(vm_script)
    /\ vm_pc >= 6
    /\ vm_script[vm_pc] = 240
    /\ RequiredHeight(SubSeq(vm_script, vm_pc - 4, vm_pc - 1)) > VmContext.block_height
    /\ vm_stack = <<<<0>>>>

---------------------------------------------------------------------------
(* Claims about the difficulty target *)

\* C32 (lenient difficulty validation): two blocks that differ in the
\* difficulty target only and both satisfy PoW get the same result from
\* validate_block and from add_block, whatever the number of predecessors and
\* whether or not a target is the expected one; a mismatch alone makes
\* neither fail.
C32_LenientTarget ==
    (/\ fn_name = "validate_block, add_block"
     /\ validates_pow(fn_args.first) /\ validates_pow(fn_args.second)) =>
            /\ fn_ret.validate_block[1] = fn_ret.validate_block[2]
            /\ IsOk(fn_ret.validate_block[1])
            /\ fn_ret.add_block[1] = fn_ret.add_block[2]
            /\ fn_ret.utxo_set[1] = fn_ret.utxo_set[2]

\* with a period of predecessors, a block whose target is not the expected one
\* and a block whose target is were both accepted
C32_Witness ==
    /\ fn_name = "validate_block, add_block"
    /\ Len(fn_args.previous_blocks) >= DIFFICULTY_ADJUSTMENT_PERIOD
    /\ validates_pow(fn_args.first) /\ validates_pow(fn_args.second)
    /\ fn_ret.mismatch = <<TRUE, FALSE>>
    /\ IsOk(fn_ret.add_block[1]) /\ IsOk(fn_ret.add_block[2])

\* the time from the first to the last block of the window of the call, and
\* the time a window should take
WindowTime ==
    dc_history[Len(dc_history)].header.timestamp
        - dc_history[Len(dc_history) - DIFFICULTY_ADJUSTMENT_PERIOD + 1].header.timestamp

WindowTarget == TARGET_BLOCK_TIME * DIFFICULTY_ADJUSTMENT_PERIOD

FullWindow == dc_called /\ Len(dc_history) >= DIFFICULTY_ADJUSTMENT_PERIOD

\* a window that took longer than it should gives a target at least the current one
C33_SlowIsEasier ==
    (FullWindow /\ WindowTime > WindowTarget) => dc_next_target >= dc_current_target

\* a window that took less than it should gives a target at most the current one
C33_FastIsHarder ==
    (FullWindow /\ WindowTime >= 0 /\ WindowTime < WindowTarget)
        => dc_next_target <= dc_current_target

\* a window that took the time it should gives the current target
C33_OnTimeIsSame ==
    (FullWindow /\ WindowTime = WindowTarget) => dc_next_target = dc_current_target

\* a window whose last timestamp precedes its first does not give an easier target
C33_BackwardsIsNotSlow ==
    (FullWindow /\ WindowTime < 0) => dc_next_target <= dc_current_target

\* C33 (direction of retargeting): with a full window the next target is at
\* least the current one when the window was slow, at most the current one when
\* it was fast, the current one when it was on time, and a window whose
\* timestamps run backwards is not taken for a slow one.
C33_Direction ==
    /\ C33_SlowIsEasier
    /\ C33_FastIsHarder
    /\ C33_OnTimeIsSame
    /\ C33_BackwardsIsNotSlow

\* the end of the current window of the rate limit of the call
WindowEnd ==
    fn_args.utxo.rate_limits[1].current_window_start
        + fn_args.utxo.rate_limits[1].window_seconds

\* C34 (rate limit): on an output with a rate limit whose time locks are all
\* satisfied, can_spend returns ArithmeticOverflow when current_window_start
\* + window_seconds is out of range, and otherwise true exactly when the
\* current timestamp is at least that sum or spent_in_window is below
\* max_value_per_window; the output, and so the window start and the amount
\* spent in the window, is the same after the call.
C34_RateLimit ==
    fn_name = "can_spend, rate limit" =>
        LET utxo == fn_args.utxo
            rate_limit == utxo.rate_limits[1]
            h == fn_args.current_block_height
            ts == fn_args.current_timestamp
        IN  /\ (\A i \in 1..Len(utxo.time_locks) :
                    check_time_lock(utxo, utxo.time_locks[i], h, ts) = "true")
                => fn_ret.result =
                        IF WindowEnd > U64_MAX THEN "ArithmeticOverflow"
                        ELSE OkBool(\/ ts >= WindowEnd
                                    \/ rate_limit.spent_in_window
                                            < rate_limit.max_value_per_window)
            /\ fn_ret.utxo = utxo
            /\ fn_ret.utxo.rate_limits[1].current_window_start
                    = rate_limit.current_window_start
            /\ fn_ret.utxo.rate_limits[1].spent_in_window = rate_limit.spent_in_window

\* a spend refused inside the window because the limit has been reached exactly
C34_Witness ==
    /\ fn_name = "can_spend, rate limit"
    /\ fn_args.utxo.time_locks = <<>>
    /\ WindowEnd <= U64_MAX
    /\ fn_args.current_timestamp < WindowEnd
    /\ fn_args.utxo.rate_limits[1].spent_in_window
            = fn_args.utxo.rate_limits[1].max_value_per_window
    /\ fn_ret.result = "false"

RECURSIVE AppendedTxs(_, _)
\* the transactions of the blocks of a chain from block b on, in order
AppendedTxs(chain, b) ==
    IF b > Len(chain) THEN <<>>
    ELSE chain[b].transactions \o AppendedTxs(chain, b + 1)

\* what the coinbase transactions of a chain pay out
CoinbaseValue(chain) ==
    LET txs == AppendedTxs(chain, 1)
    IN  SeqSum([k \in 1..Len(txs) |-> IF is_coinbase(txs[k]) THEN ValueOut(txs[k]) ELSE 0], 1)

\* the fees of the non-coinbase transactions of a chain: inputs minus outputs
Fees(chain) ==
    LET txs == AppendedTxs(chain, 1)
    IN  SeqSum([k \in 1..Len(txs) |->
                    IF is_coinbase(txs[k]) THEN 0 ELSE ValueIn(txs[k]) - ValueOut(txs[k])], 1)

\* the value the index holds
Supply(utxos) == SumValues(utxos, DOMAIN utxos)

\* the index holds what the coinbase transactions paid out less the fees
C35_SupplyIsRewardsLessFees == Supply(utxo_set) = CoinbaseValue(blocks) - Fees(blocks)

\* a rejected block adds no output to the index
C35_NothingFromRejected ==
    [][~IsOk(result') =>
          \A id \in DOMAIN utxo_set' : id \in DOMAIN utxo_set /\ utxo_set'[id] = utxo_set[id]]_vars

\* two blocks whose coinbase transactions are the same transaction
TwinCoinbases ==
    \E a, b \in 1..Len(blocks) :
        /\ a < b
        /\ Len(blocks[a].transactions) = 1 /\ is_coinbase(blocks[a].transactions[1])
        /\ blocks[b].transactions = blocks[a].transactions

\* C35 (supply accounting): in every state the values held in the
\* unspent-output index add up to the outputs of the coinbase transactions of
\* the appended blocks less the fees of their other transactions; a call of
\* add_block that returns an error adds no value to the index; and two
\* appended blocks with the same coinbase transaction each add its reward.
C35_SupplyAccounting ==
    /\ []C35_SupplyIsRewardsLessFees
    /\ C35_NothingFromRejected

\* C36 (height): in every state the height counter is the number of blocks
\* of the block list, at least 1; latest_block is the block at index
\* height - 1, and get_block(h) returns a block, the one at index h, exactly
\* when h < height.
C36_HeightIsLength ==
    /\ height = Len(blocks)
    /\ height >= 1
    /\ latest_block(blocks) = <<blocks[(height - 1) + 1]>>
    /\ \A h \in 0..(MaxBlocks + 1) :
            /\ get_block(blocks, h) # <<>> <=> h < height
            /\ h < height => get_block(blocks, h) = <<blocks[h + 1]>>

\* a chain of two blocks after a call that applied part of a block and failed
C36_Witness ==
    /\ height = 2
    /\ result.kind = "DoubleSpending"
    /\ get_block(blocks, 1) = latest_block(blocks)
    /\ get_block(blocks, 2) = <<>>

\* C37 (validate_chain agrees with add_block): on the chain state reached by
\* new_with_genesis and any calls of add_block, accepted or rejected,
\* validate_chain returns Ok, and the chain state after the call is the chain
\* state before it.
C37_ValidateChainOk ==
    /\ IsOk(validate_chain(ChainState(blocks, utxo_set, height, total_work)))
    /\ fn_name = "validate_chain" => (IsOk(fn_ret.result) /\ fn_ret.st = fn_args)

\* validate_chain called on a chain of full length, long enough for the
\* expected difficulty target of its last block to be computed
C37_Witness ==
    /\ fn_name = "validate_chain"
    /\ Len(fn_args.blocks) = MaxBlocks
    /\ Len(fn_args.blocks) > DIFFICULTY_ADJUSTMENT_PERIOD
    /\ fn_ret.result = Ok

\* the fields of a header mine_block is not to touch
Frame(h) == <<h.version, h.previous_hash, h.merkle_root, h.timestamp, h.difficulty_target>>

\* inside a call the header keeps its five other fields, and the statements
\* before the loop reset the counter
C38_FrameAndReset ==
    [][/\ miner_pc \in {"reset", "check", "hash"} => Frame(mine_header') = Frame(mine_header)
       /\ (miner_pc = "reset" /\ miner_pc' = "check") => hashes_attempted' = 0]_vars

\* a returned header is the header of the call with the smallest nonce that
\* meets the target
C38_MinimalNonce ==
    (miner_pc = "done" /\ mine_result.kind = "Ok") =>
        LET h == mine_result.header[1]
        IN  /\ Frame(h) = Frame(mine_header)
            /\ validates_pow(h)
            /\ \A n \in 0..(h.nonce - 1) : ~validates_pow([h EXCEPT !.nonce = n])

\* the counter after a call that returned a header
C38_Counter ==
    (miner_pc = "done" /\ mine_result.kind = "Ok") =>
        hashes_attempted = mine_result.header[1].nonce + 1

\* the counter after a call that returned a header with a nonce below the largest
C38_CounterBelowLast ==
    (miner_pc = "done" /\ mine_result.kind = "Ok"
        /\ mine_result.header[1].nonce < NONCE_MAX) =>
        hashes_attempted = mine_result.header[1].nonce + 1

\* C38 (minimal nonce and frame): a header returned by mine_block equals the
\* template in version, previous_hash, merkle_root, timestamp and
\* difficulty_target; its nonce is the smallest nonce whose header hash meets
\* the target, whatever nonce the template carried; and hashes_attempted,
\* reset to 0 at the start of the call, equals that nonce plus one.
C38_MinimalNonceAndFrame ==
    /\ C38_FrameAndReset
    /\ []C38_MinimalNonce
    /\ []C38_Counter

\* C39 (time-lock monotonicity): on an output with time locks and no rate
\* limit, when can_spend returns true at a height and a time it returns true
\* at every height and time that are not earlier.
C39_SpendableStaysSpendable ==
    fn_name = "can_spend, later" => (fn_ret[1] = "true" => fn_ret[2] = "true")

\* an output under a block-height lock and a timestamp lock that was not
\* spendable, then spendable, and is asked about again later
C39_Witness ==
    /\ fn_name = "can_spend, later"
    /\ Len(fn_args.utxo.time_locks) = 2
    /\ fn_args.utxo.time_locks[1].lock_type = "BlockHeight"
    /\ fn_args.utxo.time_locks[1].value = 1
    /\ fn_args.utxo.time_locks[2].lock_type = "Timestamp"
    /\ fn_args.utxo.time_locks[2].value = U64_MAX
    /\ can_spend(fn_args.utxo, 0, 0) = "false"
    /\ fn_args.current_block_height = <<1, U32_MAX>>
    /\ fn_args.current_timestamp = <<U64_MAX, U64_MAX>>
    /\ fn_ret = <<"true", "true">>
====
